---- MODULE Spec2Model ----
(***************************************************************************)
(* State-machine model of the 3D-Studio scene editor (src/src/App.js and   *)
(* src/src/components/ThreeScene.js): the scene state store, the history   *)
(* log, the CSG precondition logic and the viewport interaction            *)
(* controller with its mesh reconciliation pass.                           *)
(*                                                                         *)
(* Conventions.                                                            *)
(*  - Real numbers are represented in tenths (1.0 is 10, 0.5 is 5).        *)
(*  - JavaScript objects live in `heap` (a sequence; a reference is an     *)
(*    index), so that sharing between the live snapshot and a history      *)
(*    snapshot (restoreState hands the entry's own array to setObjects)    *)
(*    is visible: a snapshot is a sequence of references.                  *)
(*  - One action is one event handler run to completion together with the  *)
(*    React re-render and the effects that the handler's state updates     *)
(*    trigger (the mesh reconciliation effect of ThreeScene).              *)
(***************************************************************************)
EXTENDS Integers, Sequences, FiniteSets, TLC

VARIABLES
    heap,              \* JS object store: heap[r] is the scene object behind reference r
    objects,           \* App state `objects`: sequence of references (live snapshot)
    historyLog,        \* App state `historyLog`: sequence of entries [id, label, snapshot]
    selectedIds,       \* App state `selectedIds`: sequence of ids
    activeTool,        \* App state `activeTool`
    idCount,           \* number of ids drawn from generateId so far
    pendingReads,      \* FileReader reads in flight: [file, objects captured by the closure]
    meshes,            \* ThreeScene meshesRef.current: key -> renderable
    scene,             \* renderable instances that are children of the THREE scene
    pendingLoads,      \* renderable instances whose asynchronous load has not completed
    isDraggingObject,  \* ThreeScene isDraggingObject.current
    camDragging,       \* ThreeScene cameraState.current.isDragging
    dragOffset,        \* ThreeScene dragOffset.current
    dragTarget,        \* key hit by the pointer-down that started the current drag
    alert,             \* message of the alert() raised by the last handler ("" if none)
    lastRestored,      \* id of the entry restored by the last handler ("" if it was no restore)
    opCount,           \* number of updateState calls so far
    consoleError,      \* what the last step wrote with console.error, "" if nothing
    camera,            \* cameraState.current: radius (1/100), theta and phi (1/10000 rad)
    downloads,         \* the documents written by Export, with the snapshot each was written from
    joined,            \* collaborative variant, per tab: broadcastChannel.current is set
    tabObjects,        \* per tab: objects (the ids, in order)
    tabLog,            \* per tab: historyLog (the labels)
    isRemoteUpdate,    \* per tab: isRemoteUpdate.current
    timers,            \* per tab: number of setTimeout callbacks not yet run
    inbox,             \* per tab: messages posted to the channel and not yet delivered
    activeUsersMap,    \* per tab: activeUsersMapRef.current (user id -> lastUpdate)
    saveCount,         \* number of scene updates posted so far
    now,               \* Date.now(), in seconds
    remoteUsers,       \* per tab: remoteUsers (user id -> x, y, lastUpdate)
    activeUserCount,   \* per tab: activeUserCount
    overlay,           \* per tab: the users whose cursor the last render displayed
    tabSelectedId      \* per tab: selectedId ("" for null)

vars == <<heap, objects, historyLog, selectedIds, activeTool, idCount, pendingReads,
          meshes, scene, pendingLoads, isDraggingObject, camDragging, dragOffset,
          dragTarget, alert, lastRestored, opCount, consoleError, camera, downloads,
          joined, tabObjects, tabLog, isRemoteUpdate, timers, inbox, activeUsersMap, saveCount,
          now, remoteUsers, activeUserCount, overlay, tabSelectedId>>

storeVars == <<heap, objects, historyLog, selectedIds, activeTool, idCount, opCount>>
collabVars == <<joined, tabObjects, tabLog, isRemoteUpdate, timers, inbox, activeUsersMap,
               saveCount, now, remoteUsers, activeUserCount, overlay, tabSelectedId>>
viewVars == <<meshes, scene, pendingLoads, isDraggingObject, camDragging, dragOffset,
              dragTarget>>

-----------------------------------------------------------------------------
(* Bounds of the model *)

MaxOps == 2
MaxObjects == 3
MaxPending == 1
MaxLoads == 2
MaxMirrorOps == 2
MaxSaves == 2
MaxInFlight == 2
MaxTime == 6
MaxTheta == 20000
MaxExports == 2
HistFreeOps == 2
HistExtraOps == 3

(* Program constants *)

HistoryCap == 20

\* The limits of the orbit camera: phi in [0.1, Math.PI - 0.1] (1/10000 rad,
\* Math.PI = 3.14159...), radius in [2, 50] (1/100).
Pi == 31415
PhiMin == 1000
PhiMax == 30415
RadiusMin == 200
RadiusMax == 5000

-----------------------------------------------------------------------------
(* JavaScript values *)

Num(n) == [t |-> "number", v |-> n]
NaN == [t |-> "NaN"]
Null == [t |-> "null"]
Undefined == [t |-> "undefined"]
Str(s) == [t |-> "string", v |-> s]

\* Raw text handed to the numeric setters by the panels.
RawValues == {"2", "abc"}

\* parseFloat: the number a text starts with, NaN when it starts with none.
ParseFloat(raw) ==
    CASE raw = "2" -> Num(20)
      [] raw = "0" -> Num(0)
      [] raw = "0.5" -> Num(5)
      [] OTHER -> NaN

OrOne(x) == IF x.t = "number" THEN x.v ELSE 1

\* x || 0 on a number: NaN and 0 are falsy.
OrZero(x) == IF x.t = "number" THEN x.v ELSE 0

\* JSON.parse(JSON.stringify(x)) on a number: NaN (and the infinities) are written as null.
JsonNumber(x) == IF x.t = "NaN" THEN Null ELSE x

JsonExtrudeSettings(s) ==
    IF s = Undefined THEN Undefined
    ELSE [depth |-> JsonNumber(s.depth),
          bevelEnabled |-> s.bevelEnabled,
          bevelThickness |-> JsonNumber(s.bevelThickness),
          bevelSize |-> JsonNumber(s.bevelSize),
          bevelSegments |-> JsonNumber(s.bevelSegments)]

\* JSON.parse(JSON.stringify(obj)) on a scene object: finite numbers, strings and
\* booleans are kept, a key holding undefined is dropped (and reads back undefined).
JsonObject(o) == [o EXCEPT !.extrudeSettings = JsonExtrudeSettings(o.extrudeSettings)]

-----------------------------------------------------------------------------
(* Scene objects *)

DefaultMirror == [enabled |-> FALSE, axis |-> "x"]

DefaultExtrudeSettings ==
    [depth |-> Num(5), bevelEnabled |-> TRUE, bevelThickness |-> Num(1),
     bevelSize |-> Num(1), bevelSegments |-> Num(30)]

INITIAL_OBJECTS ==
    << [id |-> "1", type |-> "cube", position |-> <<-20, 0, 0>>, rotation |-> <<0, 0, 0>>,
        scale |-> <<10, 10, 10>>, color |-> "#6366f1", wireframe |-> FALSE,
        extrudeSettings |-> Undefined, mirror |-> DefaultMirror,
        format |-> Undefined, name |-> Undefined],
       [id |-> "2", type |-> "ex_star", position |-> <<20, 0, 0>>, rotation |-> <<0, 0, 0>>,
        scale |-> <<10, 10, 10>>, color |-> "#ec4899", wireframe |-> FALSE,
        extrudeSettings |-> DefaultExtrudeSettings, mirror |-> DefaultMirror,
        format |-> Undefined, name |-> Undefined] >>

\* generateId: the n-th id drawn; draws are taken to be pairwise distinct and
\* distinct from the ids of INITIAL_OBJECTS.
GenerateId(n) == "g" \o ToString(n)

Range(s) == {s[i] : i \in DOMAIN s}

\* The scene objects a snapshot (sequence of references) denotes in heap h.
Deref(h, snapshot) == [i \in DOMAIN snapshot |-> h[snapshot[i]]]

Ids(objs) == {objs[i].id : i \in DOMAIN objs}

Live == Deref(heap, objects)

\* Array.prototype.find on the live objects: the first object with the id, or Undefined.
Find(objs, id) ==
    IF \E i \in DOMAIN objs : objs[i].id = id
    THEN objs[CHOOSE i \in DOMAIN objs :
                 objs[i].id = id /\ \A j \in 1..(i - 1) : objs[j].id # id]
    ELSE Undefined

-----------------------------------------------------------------------------
(* History log *)

\* Array.prototype.slice(-n)
SliceLast(s, n) == IF Len(s) <= n THEN s ELSE SubSeq(s, Len(s) - n + 1, Len(s))

LogAppendKeepOldest(prev, newEntry) ==
    SubSeq(Append(prev, newEntry), 1, IF Len(prev) < HistoryCap THEN Len(prev) + 1 ELSE HistoryCap)

\* The setHistoryLog updater of updateState: [...prev, newEntry].slice(-20)
LogAppend(prev, newEntry) == SliceLast(Append(prev, newEntry), HistoryCap)

\* JSON.parse(JSON.stringify(newObjects)): fresh objects, allocated after heap h.
DeepCopyHeap(h, snapshot) == h \o [i \in DOMAIN snapshot |-> JsonObject(h[snapshot[i]])]
DeepCopyRefs(h, snapshot) == [i \in DOMAIN snapshot |-> Len(h) + i]

\* updateState(newObjects, actionLabel), called with heap h holding newObjects and
\* after `drawn` ids were drawn by the calling handler.
UpdateState(h, newObjects, actionLabel, drawn) ==
    /\ objects' = newObjects
    /\ heap' = DeepCopyHeap(h, newObjects)
    /\ historyLog' = LogAppend(historyLog,
                               [id |-> GenerateId(idCount + drawn + 1),
                                label |-> actionLabel,
                                snapshot |-> DeepCopyRefs(h, newObjects)])
    /\ idCount' = idCount + drawn + 1
    /\ opCount' = opCount + 1

\* updateState applied to the result r = [heap, objects] of a map over the objects.
Updated(r, label) == UpdateState(r.heap, r.objects, label, 0)

Last(s) == s[Len(s)]

-----------------------------------------------------------------------------
(* Array helpers on the heap *)

\* The indices of the objects of snapshot `refs` whose id is `id`.
Matching(h, refs, id) == {i \in DOMAIN refs : h[refs[i]].id = id}

\* objects.map(obj => obj.id !== id ? obj : f(obj)): every object with the id is
\* replaced by a fresh object, the others are carried over by reference.
\* mapped[c] is f applied to the object in cell c.
MapObjects(h, refs, id, mapped) ==
    LET M == Matching(h, refs, id)
        idxs == SelectSeq([i \in DOMAIN refs |-> i], LAMBDA i : i \in M)
        Rank(i) == Cardinality({j \in M : j <= i})
    IN  [heap |-> h \o [k \in DOMAIN idxs |-> mapped[refs[idxs[k]]]],
         objects |-> [i \in DOMAIN refs |->
                         IF i \in M THEN Len(h) + Rank(i) ELSE refs[i]]]

\* objects.filter(o => the id of o is none of `dropped`)
FilterObjects(h, refs, dropped) == SelectSeq(refs, LAMBDA r : h[r].id \notin dropped)

WithoutAll(s, id) == <<>>

\* prev.filter(i => i !== id)
Without(s, id) == SelectSeq(s, LAMBDA i : i # id)

Includes(s, x) == \E i \in DOMAIN s : s[i] = x

-----------------------------------------------------------------------------
(* Pure parts of the store operations *)

\* The profiles createExtrudedShape draws.
ExtrudedProfiles == {"ex_rect", "ex_circle", "ex_tri", "ex_hex", "ex_star", "ex_heart"}

\* type.startsWith('ex_'): the profiles, and a tag that names no profile.
StartsWithEx(type) == type \in ExtrudedProfiles \cup {"ex_blob"}

\* isExtrudable of addObject
IsExtrudable(type) == StartsWithEx(type)

\* The object literal of addObject.
NewObject(id, type, x, y, color) ==
    [id |-> id, type |-> type, position |-> <<x, y, 0>>, rotation |-> <<0, 0, 0>>,
     scale |-> <<10, 10, 10>>, color |-> color, wireframe |-> FALSE,
     extrudeSettings |-> IF IsExtrudable(type) THEN DefaultExtrudeSettings ELSE Undefined,
     mirror |-> DefaultMirror, format |-> Undefined, name |-> Undefined]

\* The object literal of addModel (handleFileUpload) and of performCSG.
NewModel(id, format, name, position) ==
    [id |-> id, type |-> "model", position |-> position, rotation |-> <<0, 0, 0>>,
     scale |-> <<10, 10, 10>>, color |-> "#ffffff", wireframe |-> FALSE,
     extrudeSettings |-> Undefined, mirror |-> DefaultMirror,
     format |-> Str(format), name |-> Str(name)]

AxisIndex(axis) == IF axis = "x" THEN 1 ELSE IF axis = "y" THEN 2 ELSE IF axis = "z" THEN 3 ELSE 1

ToUpperCase(axis) ==
    IF axis = "x" THEN "X" ELSE IF axis = "y" THEN "Y" ELSE IF axis = "z" THEN "Z" ELSE axis

\* The per-object body of updateTransform.
TransformObjectAllAxes(obj, type, axis, value) ==
    [obj EXCEPT ![type] = [i \in 1..3 |-> OrZero(ParseFloat(value))]]

TransformObject(obj, type, axis, value) ==
    [obj EXCEPT ![type] = [@ EXCEPT ![AxisIndex(axis)] = OrZero(ParseFloat(value))]]

UpdateTransformInPlace(h, refs, id, type, axis, value) ==
    [heap |-> [c \in DOMAIN h |->
                  IF c \in Range(refs) /\ h[c].id = id
                  THEN TransformObject(h[c], type, axis, value) ELSE h[c]],
     objects |-> refs]

UpdateTransformMap(h, refs, id, type, axis, value) ==
    MapObjects(h, refs, id, [c \in DOMAIN h |-> TransformObject(h[c], type, axis, value)])

\* The per-object body of updateObject.
UpdateObjectMap(h, refs, id, field, value) ==
    MapObjects(h, refs, id, [c \in DOMAIN h |-> [h[c] EXCEPT ![field] = value]])

\* The per-object body of updateExtrudeSetting, for an object that has extrudeSettings.
ExtrudeSettingValue(setting, value) ==
    IF setting = "bevelEnabled" THEN value ELSE ParseFloat(value)

UpdateExtrudeSettingMap(h, refs, id, setting, value) ==
    MapObjects(h, refs, id,
               [c \in DOMAIN h |->
                   [h[c] EXCEPT !.extrudeSettings =
                       [@ EXCEPT ![setting] = ExtrudeSettingValue(setting, value)]]])

\* The per-object body of updateMirrorSetting (every modelled object has a mirror record).
UpdateMirrorSettingMap(h, refs, id, setting, value) ==
    MapObjects(h, refs, id,
               [c \in DOMAIN h |-> [h[c] EXCEPT !.mirror = [@ EXCEPT ![setting] = value]]])

\* The per-object body of onUpdateObjectPosition.
UpdatePositionMap(h, refs, id, newPos) ==
    MapObjects(h, refs, id, [c \in DOMAIN h |-> [h[c] EXCEPT !.position = newPos]])

SelectUpdateAppend(prev, id, multi) == IF multi THEN Append(prev, id) ELSE <<id>>

\* The updater of onSelect for a non-null id.
SelectUpdate(prev, id, multi) ==
    IF multi
    THEN (IF Includes(prev, id) THEN Without(prev, id) ELSE Append(prev, id))
    ELSE <<id>>

-----------------------------------------------------------------------------
(* ThreeScene: the renderable cache and its reconciliation effect *)

MirrorId(id) == id \o "_mirror"

Put(ms, k, m) == [x \in DOMAIN ms \cup {k} |-> IF x = k THEN m ELSE ms[x]]
Drop(ms, k) == [x \in DOMAIN ms \ {k} |-> ms[x]]

\* a !== b on two JS values: NaN differs from everything, itself included.
StrictNeq(a, b) == a = NaN \/ b = NaN \/ a # b

\* needsRebuild: the cached userData differs from the object's extrusion settings.
NeedsRebuild(mesh, obj) ==
    /\ obj.extrudeSettings # Undefined
    /\ \/ mesh.built = Undefined
       \/ StrictNeq(mesh.built.depth, obj.extrudeSettings.depth)
       \/ StrictNeq(mesh.built.bevelThickness, obj.extrudeSettings.bevelThickness)
       \/ StrictNeq(mesh.built.bevelSize, obj.extrudeSettings.bevelSize)
       \/ mesh.built.bevelEnabled # obj.extrudeSettings.bevelEnabled
       \/ StrictNeq(mesh.built.bevelSegments, obj.extrudeSettings.bevelSegments)

\* The formats whose loader completes later through a callback.
AsyncFormats == {Str("glb"), Str("gltf"), Str("obj"), Str("stl"), Str("json")}

\* createExtrudedShape: the outline drawn for the type; for any other type the
\* Shape has no outline, only closePath().
CreateExtrudedShape(type) == IF type \in ExtrudedProfiles THEN type ELSE "empty"

\* The settings getGeometryForObject uses for an object that has none.
FallbackExtrudeSettings ==
    [depth |-> Num(5), bevelEnabled |-> TRUE, bevelThickness |-> Num(1),
     bevelSize |-> Num(1), bevelSegments |-> Num(20)]

\* The types getGeometryForObject has a solid for.
Primitives ==
    {"cube", "sphere", "cylinder", "cone", "torus", "icosahedron", "dodecahedron",
     "octahedron", "tetrahedron"}

\* getGeometryForObject: the extruded outline for a type that starts with
\* 'ex_', the solid of a primitive, BoxGeometry(1, 1, 1) for the rest.
GetGeometryForObject(obj) ==
    IF StartsWithEx(obj.type)
    THEN [solid |-> "ExtrudeGeometry", shape |-> CreateExtrudedShape(obj.type),
          settings |-> IF obj.extrudeSettings \in {Undefined, Null}
                       THEN FallbackExtrudeSettings ELSE obj.extrudeSettings]
    ELSE [solid |-> CASE obj.type = "cube" -> "BoxGeometry(1, 1, 1)"
                      [] obj.type = "sphere" -> "SphereGeometry(0.6, 32, 32)"
                      [] obj.type = "cylinder" -> "CylinderGeometry(0.5, 0.5, 1, 32)"
                      [] obj.type = "cone" -> "ConeGeometry(0.5, 1, 32)"
                      [] obj.type = "torus" -> "TorusGeometry(0.5, 0.2, 16, 100)"
                      [] obj.type = "icosahedron" -> "IcosahedronGeometry(0.6, 0)"
                      [] obj.type = "dodecahedron" -> "DodecahedronGeometry(0.6, 0)"
                      [] obj.type = "octahedron" -> "OctahedronGeometry(0.6, 0)"
                      [] obj.type = "tetrahedron" -> "TetrahedronGeometry(0.6, 0)"
                      [] OTHER -> "BoxGeometry(1, 1, 1)",
          shape |-> "", settings |-> Undefined]

\* The geometry dispatch of the collaborative variant's ThreeScene.
CollabGeometry(type) ==
    CASE type = "cube" -> "BoxGeometry(1, 1, 1)"
      [] type = "sphere" -> "SphereGeometry(0.6, 32, 32)"
      [] type = "cone" -> "ConeGeometry(0.5, 1, 32)"
      [] type = "torus" -> "TorusGeometry(0.5, 0.2, 16, 100)"
      [] OTHER -> "IcosahedronGeometry(0.6, 0)"

\* The renderable created for an object that has none: a Group for a model (filled
\* at once from inline data, later by a loader otherwise), a Mesh with the
\* geometry of getGeometryForObject for every other type.
NewMesh(obj, inst) ==
    [inst |-> inst, geom |-> inst, id |-> obj.id, isMirror |-> FALSE,
     isGroup |-> obj.type = "model",
     children |-> IF obj.type = "model" /\ obj.format = Str("json_data") THEN 1 ELSE 0,
     geoType |-> obj.type,
     geometry |-> IF obj.type = "model" THEN Undefined ELSE GetGeometryForObject(obj),
     built |-> IF obj.type # "model" THEN obj.extrudeSettings ELSE Undefined,
     position |-> <<0, 0, 0>>, rotation |-> <<0, 0, 0>>, scale |-> <<10, 10, 10>>]

\* The identity of a newly created renderable or geometry: one that no cached
\* renderable and no running loader holds.
UsedInsts(st) ==
    {st.meshes[k].inst : k \in DOMAIN st.meshes} \cup {st.meshes[k].geom : k \in DOMAIN st.meshes}
        \cup st.pendingLoads \cup st.scene

FreshInst(st) ==
    CHOOSE n \in 1..(Cardinality(UsedInsts(st)) + 1) :
        n \notin UsedInsts(st) /\ \A m \in 1..(n - 1) : m \in UsedInsts(st)

NegateAxis(scale, axis) ==
    [i \in 1..3 |-> IF (axis = "x" /\ i = 1) \/ (axis = "y" /\ i = 2) \/ (axis = "z" /\ i = 3)
                    THEN -scale[i] ELSE scale[i]]

\* shouldRebuild of the mirror logic.
MirrorShouldRebuild(ms, mirrorId, mesh) ==
    \/ mirrorId \notin DOMAIN ms
    \/ (~mesh.isGroup /\ ~ms[mirrorId].isGroup /\ ms[mirrorId].geom # mesh.geom)
    \/ (mesh.isGroup /\ ms[mirrorId].isGroup /\ ms[mirrorId].children # mesh.children)

\* The first half of the body of objects.forEach in the mesh synchronisation
\* effect: find or (re)build the renderable of obj, then set its transformations.
\* st = [meshes, scene, pendingLoads].
Transformed(mesh, obj, sel, dragging) ==
    [mesh EXCEPT !.position = IF ~dragging \/ ~Includes(sel, obj.id) THEN obj.position ELSE @,
                 !.rotation = obj.rotation,
                 !.scale = obj.scale]

Place(st, obj, mesh, sel, dragging) ==
    [st EXCEPT !.meshes = Put(@, obj.id, Transformed(mesh, obj, sel, dragging))]

SceneKept(st, key) == st.scene

\* scene.remove(mesh) of a renderable that is cached under key.
SceneWithout(st, key) ==
    IF key \in DOMAIN st.meshes THEN st.scene \ {st.meshes[key].inst} ELSE st.scene

SyncPrimary(st, obj, sel, dragging) ==
    IF obj.id \notin DOMAIN st.meshes \/ NeedsRebuild(st.meshes[obj.id], obj)
    THEN Place([st EXCEPT !.pendingLoads = IF obj.type = "model" /\ obj.format \in AsyncFormats
                                           THEN @ \cup {FreshInst(st)} ELSE @,
                          !.scene = SceneWithout(st, obj.id) \cup {FreshInst(st)}],
               obj, NewMesh(obj, FreshInst(st)), sel, dragging)
    ELSE Place(st, obj, st.meshes[obj.id], sel, dragging)

\* mesh.clone() tagged as the mirror of its object.
CloneAsMirror(mesh, inst, mirrorId) ==
    [mesh EXCEPT !.inst = inst, !.id = mirrorId, !.isMirror = TRUE]

\* Sync Transform and Apply Mirror Scale.
MirrorSynced(mirrorMesh, mesh, axis) ==
    [mirrorMesh EXCEPT !.position = mesh.position,
                       !.rotation = mesh.rotation,
                       !.scale = NegateAxis(mesh.scale, axis)]

\* The mirror logic of the body of objects.forEach.
SyncMirror(st, obj) ==
    IF obj.mirror.enabled
    THEN IF MirrorShouldRebuild(st.meshes, MirrorId(obj.id), st.meshes[obj.id])
         THEN [st EXCEPT !.meshes = Put(@, MirrorId(obj.id),
                                        MirrorSynced(CloneAsMirror(st.meshes[obj.id],
                                                                   FreshInst(st),
                                                                   MirrorId(obj.id)),
                                                     st.meshes[obj.id], obj.mirror.axis)),
                         !.scene = SceneWithout(st, MirrorId(obj.id)) \cup {FreshInst(st)}]
         ELSE [st EXCEPT !.meshes = Put(@, MirrorId(obj.id),
                                        MirrorSynced(st.meshes[MirrorId(obj.id)],
                                                     st.meshes[obj.id], obj.mirror.axis))]
    ELSE [st EXCEPT !.meshes = Drop(@, MirrorId(obj.id)),
                    !.scene = SceneWithout(st, MirrorId(obj.id))]

SyncObject(st, obj, sel, dragging) == SyncMirror(SyncPrimary(st, obj, sel, dragging), obj)

RECURSIVE SyncObjects(_, _, _, _)
SyncObjects(st, objs, sel, dragging) ==
    IF objs = <<>> THEN st
    ELSE SyncObjects(SyncObject(st, Head(objs), sel, dragging), Tail(objs), sel, dragging)

\* validIds of the effect.
ValidIds(objs) ==
    Ids(objs) \cup {MirrorId(objs[i].id) : i \in {j \in DOMAIN objs : objs[j].mirror.enabled}}

RemoveStaleSkipped(st, valid) == st

\* Object.keys(meshesRef.current).forEach: the renderables with no valid id are removed.
RemoveStale(st, valid) ==
    [st EXCEPT !.meshes = [k \in DOMAIN @ \cap valid |-> @[k]],
               !.scene = @ \ {st.meshes[k].inst : k \in DOMAIN st.meshes \ valid}]

\* The whole effect: synchronise every object, then remove the stale renderables.
Reconcile(st, objs, sel, dragging) ==
    RemoveStale(SyncObjects(st, objs, sel, dragging), ValidIds(objs))

ViewState == [meshes |-> meshes, scene |-> scene, pendingLoads |-> pendingLoads]

SetView(st) ==
    /\ meshes' = st.meshes
    /\ scene' = st.scene
    /\ pendingLoads' = st.pendingLoads

\* The effect runs after a render in which objects or selectedIds changed; the
\* handler has completed by then, so the refs hold their new values.
RunReconcile ==
    SetView(Reconcile(ViewState, Deref(heap', objects'), selectedIds', isDraggingObject'))

EmptyMeshes == [k \in {} |-> 0]

-----------------------------------------------------------------------------
(* Inputs *)

AddTypes == {"sphere", "ex_rect"}
RandomCoords == {5}
Palette == {"#ef4444"}
Tools == {"select", "move"}
TransformKinds == {"position", "rotation", "scale"}
Axes == {"x", "y", "z"}
NumericSettings == {"depth", "bevelThickness", "bevelSize", "bevelSegments"}
PickedColors == {"#000000"}
CsgCenters == {<<0, 0, 0>>}
PlanePoints == {<<10, 10, 0>>}
MouseDeltas == {<<100, 300>>, <<-100, -300>>, <<0, 40>>}
WheelDeltas == {-1000, 3000, 150}

\* An object of a scene document: a white solid at the origin.
DocumentObject(id, type) ==
    [id |-> id, type |-> type, position |-> <<0, 0, 0>>, rotation |-> <<0, 0, 0>>,
     scale |-> <<10, 10, 10>>, color |-> "#ffffff", wireframe |-> FALSE,
     extrudeSettings |-> Undefined, mirror |-> DefaultMirror,
     format |-> Undefined, name |-> Undefined]

\* The text of the n-th document written by Export.
ExportText(n) == "[export " \o ToString(n) \o "]"

\* JSON.stringify(objects), as JSON.parse reads it back.
JsonStringify(objs) == [i \in DOMAIN objs |-> JsonObject(objs[i])]

\* The scene document of a file whose text is a JSON array.
SceneDocument(text) ==
    IF \E n \in DOMAIN downloads : text = ExportText(n)
    THEN downloads[CHOOSE n \in DOMAIN downloads : text = ExportText(n)].doc
    ELSE IF text = "[cube]" THEN << DocumentObject("7", "cube") >>
    ELSE IF text = "[twins]" THEN << DocumentObject("7", "cube"), DocumentObject("7", "cube") >>
    ELSE IF text = "[swap]" THEN << DocumentObject("1", "sphere") >>
    ELSE IF text = "[shapes]" THEN << DocumentObject("8", "blob"), DocumentObject("9", "ex_blob") >>
    ELSE <<>>

\* Files the user may pick: name and text.
Files ==
    { [name |-> "part.glb", text |-> "binary"],
      [name |-> "broken.json", text |-> "{oops"],
      [name |-> "scene.json", text |-> "[]"],
      [name |-> "cube.json", text |-> "[cube]"],
      [name |-> "mesh.json", text |-> "{mesh}"] }

\* Scene files that were not written by this program: two objects that carry
\* one id, an object that carries the id of an initial object with another
\* type, and two objects whose types the toolbar does not offer.
ForeignFiles ==
    { [name |-> "twins.json", text |-> "[twins]"],
      [name |-> "swap.json", text |-> "[swap]"],
      [name |-> "shapes.json", text |-> "[shapes]"] }

\* The files that are not .json files.
ModelFiles == {f \in Files : f.name = "part.glb"}

EndsWithJson(name) ==
    name \in {"broken.json", "scene.json", "cube.json", "mesh.json", "twins.json", "shapes.json",
              "swap.json"}

\* name.split('.').pop()
Extension(name) == IF EndsWithJson(name) THEN "json" ELSE "glb"

\* The texts that are JSON arrays.
ArrayTexts == {"[]", "[cube]", "[twins]", "[shapes]", "[swap]"} \cup {ExportText(n) : n \in 1..MaxExports}

JsonParseLenient(text) == IF text \in ArrayTexts THEN "array" ELSE "object"

\* JSON.parse: "throws", "array" or "object".
JsonParse(text) ==
    CASE text \in ArrayTexts -> "array"
      [] text = "{mesh}" -> "object"
      [] OTHER -> "throws"

-----------------------------------------------------------------------------
(* The collaborative variant: tabs on one BroadcastChannel *)

\* The tabs that may join; myUser.id of a tab is its name.
Tabs == {"A", "B"}

\* timeoutSeconds: a user is active if a heartbeat came in the last 5 seconds.
TimeoutSeconds == 5

\* Cursor positions, in percent of the viewport.
CursorPoints == {<<50, 50>>}

mainVars ==
    <<storeVars, pendingReads, viewVars, alert, lastRestored, consoleError, camera, downloads>>

NoUsers == [k \in {} |-> 0]

InitCollab ==
    /\ joined = [t \in Tabs |-> FALSE]
    /\ tabObjects = [t \in Tabs |-> <<"1", "2">>]
    /\ tabLog = [t \in Tabs |-> <<>>]
    /\ isRemoteUpdate = [t \in Tabs |-> FALSE]
    /\ timers = [t \in Tabs |-> 0]
    /\ inbox = [t \in Tabs |-> <<>>]
    /\ activeUsersMap = [t \in Tabs |-> NoUsers]
    /\ saveCount = 0
    /\ now = 0
    /\ remoteUsers = [t \in Tabs |-> NoUsers]
    /\ activeUserCount = [t \in Tabs |-> 1]
    /\ overlay = [t \in Tabs |-> {}]
    /\ tabSelectedId = [t \in Tabs |-> ""]

\* The messages of the channel. A SCENE_UPDATE carries no userId.
SceneUpdate(newObjects, newLog) ==
    [type |-> "SCENE_UPDATE", userId |-> "", objects |-> newObjects, log |-> newLog]

Heartbeat(t) == [type |-> "HEARTBEAT", userId |-> t, objects |-> <<>>, log |-> <<>>]

CursorUpdate(t, x, y) == [type |-> "CURSOR_UPDATE", userId |-> t, x |-> x, y |-> y]

\* broadcastChannel.current.postMessage(msg) in tab t: the message is queued for
\* every other context that has the channel open.
PostMessage(boxes, t, msg) ==
    [u \in Tabs |-> IF u # t /\ joined[u] THEN Append(boxes[u], msg) ELSE boxes[u]]

\* The SCENE_UPDATE messages in flight, as (tab, place in its queue).
SceneUpdatesInFlight ==
    {p \in UNION {{<<u, i>> : i \in DOMAIN inbox[u]} : u \in Tabs} :
        inbox[p[1]][p[2]].type = "SCENE_UPDATE"}

\* The Remote Cursors of a render at time `at`: a cursor is hidden when
\* Date.now() - user.lastUpdate > 5000.
ShownCursors(users, at) == {u \in DOMAIN users : ~(at - users[u].lastUpdate > TimeoutSeconds)}

\* A render of tab t with the given remoteUsers.
Rendered(t, users) == [overlay EXCEPT ![t] = ShownCursors(users, now)]

\* handleJoin and the channel effect that follows it: the channel is opened and
\* the first heartbeat is sent.
HandleJoin(t) ==
    /\ ~joined[t]
    /\ joined' = [joined EXCEPT ![t] = TRUE]
    /\ inbox' = PostMessage(inbox, t, Heartbeat(t))
    /\ overlay' = Rendered(t, remoteUsers[t])
    /\ UNCHANGED <<tabObjects, tabLog, isRemoteUpdate, timers, activeUsersMap, saveCount>>
    /\ UNCHANGED <<now, remoteUsers, activeUserCount>>
    /\ UNCHANGED tabSelectedId
    /\ UNCHANGED mainVars

\* sendHeartbeat, run by the heartbeat interval.
SendHeartbeat(t) ==
    /\ joined[t]
    /\ inbox' = PostMessage(inbox, t, Heartbeat(t))
    /\ UNCHANGED <<joined, tabObjects, tabLog, isRemoteUpdate, timers, activeUsersMap, saveCount>>
    /\ UNCHANGED <<now, remoteUsers, activeUserCount, overlay>>
    /\ UNCHANGED tabSelectedId
    /\ UNCHANGED mainVars

\* broadcastCursor(x, y), called when the pointer moves over the canvas of tab t.
BroadcastCursor(t, x, y) ==
    /\ joined[t]
    /\ inbox' = PostMessage(inbox, t, CursorUpdate(t, x, y))
    /\ UNCHANGED <<joined, tabObjects, tabLog, isRemoteUpdate, timers, activeUsersMap, saveCount>>
    /\ UNCHANGED <<now, remoteUsers, activeUserCount, overlay>>
    /\ UNCHANGED tabSelectedId
    /\ UNCHANGED mainVars

\* saveScene(newObjects, actionLabel) in tab t.
SaveScene(t, newObjects, actionLabel) ==
    IF isRemoteUpdate[t] \/ ~joined[t]
    THEN UNCHANGED <<tabObjects, tabLog, inbox, saveCount>>
    ELSE LET newLog == SliceLast(Append(tabLog[t], actionLabel), HistoryCap)
         IN  /\ tabObjects' = [tabObjects EXCEPT ![t] = newObjects]
             /\ tabLog' = [tabLog EXCEPT ![t] = newLog]
             /\ inbox' = PostMessage(inbox, t, SceneUpdate(newObjects, newLog))
             /\ saveCount' = saveCount + 1

\* addObject(type) of the collaborative variant; setSelectedId and setActiveTool
\* make the tab render whether or not the scene was saved.
CollabAddObject(t, type) ==
    /\ SaveScene(t, Append(tabObjects[t], GenerateId(saveCount + 1)), "Add " \o type)
    /\ tabSelectedId' = [tabSelectedId EXCEPT ![t] = GenerateId(saveCount + 1)]
    /\ overlay' = Rendered(t, remoteUsers[t])
    /\ UNCHANGED <<joined, isRemoteUpdate, timers, activeUsersMap>>
    /\ UNCHANGED <<now, remoteUsers, activeUserCount>>
    /\ UNCHANGED mainVars

\* deleteObject(id) of the collaborative variant.
CollabDeleteObject(t, id) ==
    /\ SaveScene(t, SelectSeq(tabObjects[t], LAMBDA o : o # id), "Delete Object")
    /\ tabSelectedId' = [tabSelectedId EXCEPT ![t] = IF @ = id THEN "" ELSE @]
    /\ overlay' = IF (isRemoteUpdate[t] \/ ~joined[t]) /\ tabSelectedId[t] # id THEN overlay
                  ELSE Rendered(t, remoteUsers[t])
    /\ UNCHANGED <<joined, isRemoteUpdate, timers, activeUsersMap>>
    /\ UNCHANGED <<now, remoteUsers, activeUserCount>>
    /\ UNCHANGED mainVars

OnMessageEcho(t) ==
    /\ joined[t]
    /\ inbox[t] # <<>>
    /\ LET data == Head(inbox[t])
       IN  IF data.type = "SCENE_UPDATE"
           THEN /\ isRemoteUpdate' = [isRemoteUpdate EXCEPT ![t] = TRUE]
                /\ tabObjects' = [tabObjects EXCEPT ![t] = data.objects]
                /\ tabLog' = [tabLog EXCEPT ![t] = data.log]
                /\ timers' = [timers EXCEPT ![t] = @ + 1]
                /\ inbox' = PostMessage([inbox EXCEPT ![t] = Tail(@)], t, data)
                /\ UNCHANGED activeUsersMap
           ELSE /\ activeUsersMap' = [activeUsersMap EXCEPT
                                         ![t] = Put(@, data.userId, [lastUpdate |-> now])]
                /\ inbox' = [inbox EXCEPT ![t] = Tail(@)]
                /\ UNCHANGED <<tabObjects, tabLog, isRemoteUpdate, timers>>
    /\ UNCHANGED <<joined, saveCount>>
    /\ UNCHANGED <<now, remoteUsers, activeUserCount, overlay>>
    /\ UNCHANGED tabSelectedId
    /\ UNCHANGED mainVars

OnMessageMerged(t) ==
    /\ joined[t]
    /\ inbox[t] # <<>>
    /\ inbox' = [inbox EXCEPT ![t] = Tail(@)]
    /\ LET data == Head(inbox[t])
       IN  IF data.userId = t
           THEN UNCHANGED <<tabObjects, tabLog, isRemoteUpdate, timers, activeUsersMap,
                            remoteUsers, overlay>>
           ELSE IF data.type = "HEARTBEAT"
           THEN /\ activeUsersMap' = [activeUsersMap EXCEPT
                                         ![t] = Put(@, data.userId, [lastUpdate |-> now])]
                /\ UNCHANGED <<tabObjects, tabLog, isRemoteUpdate, timers, remoteUsers, overlay>>
           ELSE IF data.type = "SCENE_UPDATE"
           THEN /\ isRemoteUpdate' = [isRemoteUpdate EXCEPT ![t] = TRUE]
                /\ tabObjects' = [tabObjects EXCEPT
                                     ![t] = data.objects
                                            \o SelectSeq(@, LAMBDA o : ~Includes(data.objects, o))]
                /\ tabLog' = [tabLog EXCEPT ![t] = data.log]
                /\ timers' = [timers EXCEPT ![t] = @ + 1]
                /\ overlay' = Rendered(t, remoteUsers[t])
                /\ UNCHANGED <<activeUsersMap, remoteUsers>>
           ELSE /\ remoteUsers' = [remoteUsers EXCEPT
                                      ![t] = Put(@, data.userId,
                                                 [x |-> data.x, y |-> data.y, lastUpdate |-> now])]
                /\ overlay' = Rendered(t, remoteUsers'[t])
                /\ UNCHANGED <<tabObjects, tabLog, isRemoteUpdate, timers, activeUsersMap>>
    /\ UNCHANGED <<joined, saveCount, now, activeUserCount>>
    /\ UNCHANGED tabSelectedId
    /\ UNCHANGED mainVars

\* broadcastChannel.current.onmessage in tab t, for the oldest undelivered message.
OnMessage(t) ==
    /\ joined[t]
    /\ inbox[t] # <<>>
    /\ inbox' = [inbox EXCEPT ![t] = Tail(@)]
    /\ LET data == Head(inbox[t])
       IN  IF data.userId = t
           THEN UNCHANGED <<tabObjects, tabLog, isRemoteUpdate, timers, activeUsersMap,
                            remoteUsers, overlay>>
           ELSE IF data.type = "HEARTBEAT"
           THEN /\ activeUsersMap' = [activeUsersMap EXCEPT
                                         ![t] = Put(@, data.userId, [lastUpdate |-> now])]
                /\ UNCHANGED <<tabObjects, tabLog, isRemoteUpdate, timers, remoteUsers, overlay>>
           ELSE IF data.type = "SCENE_UPDATE"
           THEN /\ isRemoteUpdate' = [isRemoteUpdate EXCEPT ![t] = TRUE]
                /\ tabObjects' = [tabObjects EXCEPT ![t] = data.objects]
                /\ tabLog' = [tabLog EXCEPT ![t] = data.log]
                /\ timers' = [timers EXCEPT ![t] = @ + 1]
                /\ overlay' = Rendered(t, remoteUsers[t])
                /\ UNCHANGED <<activeUsersMap, remoteUsers>>
           ELSE /\ remoteUsers' = [remoteUsers EXCEPT
                                      ![t] = Put(@, data.userId,
                                                 [x |-> data.x, y |-> data.y, lastUpdate |-> now])]
                /\ overlay' = Rendered(t, remoteUsers'[t])
                /\ UNCHANGED <<tabObjects, tabLog, isRemoteUpdate, timers, activeUsersMap>>
    /\ UNCHANGED <<joined, saveCount, now, activeUserCount>>
    /\ UNCHANGED tabSelectedId
    /\ UNCHANGED mainVars

\* The callback of setTimeout(() => { isRemoteUpdate.current = false; }, 50).
ResetFlag(t) ==
    /\ timers[t] > 0
    /\ timers' = [timers EXCEPT ![t] = @ - 1]
    /\ isRemoteUpdate' = [isRemoteUpdate EXCEPT ![t] = FALSE]
    /\ UNCHANGED <<joined, tabObjects, tabLog, inbox, activeUsersMap, saveCount>>
    /\ UNCHANGED <<now, remoteUsers, activeUserCount, overlay>>
    /\ UNCHANGED tabSelectedId
    /\ UNCHANGED mainVars

\* freshUsers with a user kept only while its last heartbeat is less than half
\* of timeoutSeconds old.
FreshUsersHalfTimeout(t, users, at) ==
    {t} \cup {k \in DOMAIN users : k # t /\ at - users[k].lastUpdate < TimeoutSeconds \div 2}

\* freshUsers of the cleanup interval: the tab's own user and every other user
\* whose last heartbeat is less than timeoutSeconds old.
FreshUsers(t, users, at) ==
    {t} \cup {k \in DOMAIN users : k # t /\ at - users[k].lastUpdate < TimeoutSeconds}

\* The callback of cleanupInterval in tab t. setActiveUserCount renders the tab
\* only when the count differs from the one it has.
Cleanup(t) ==
    /\ joined[t]
    /\ LET fresh == FreshUsers(t, activeUsersMap[t], now)
       IN  /\ activeUsersMap' =
                 [activeUsersMap EXCEPT
                     ![t] = [k \in fresh |-> IF k = t THEN [lastUpdate |-> now] ELSE @[k]]]
           /\ activeUserCount' = [activeUserCount EXCEPT ![t] = Cardinality(fresh)]
           /\ overlay' = IF Cardinality(fresh) # activeUserCount[t]
                         THEN Rendered(t, remoteUsers[t]) ELSE overlay
    /\ UNCHANGED <<joined, tabObjects, tabLog, isRemoteUpdate, timers, inbox, saveCount>>
    /\ UNCHANGED <<now, remoteUsers>>
    /\ UNCHANGED tabSelectedId
    /\ UNCHANGED mainVars

\* One second passes. cleanupInterval has a period of one second: the cleanup
\* of every tab that has joined has run in the second that ends.
Tick ==
    /\ \A t \in Tabs :
          joined[t] => t \in DOMAIN activeUsersMap[t] /\ activeUsersMap[t][t].lastUpdate = now
    /\ now' = now + 1
    /\ UNCHANGED <<joined, tabObjects, tabLog, isRemoteUpdate, timers, inbox, activeUsersMap,
                   saveCount, remoteUsers, activeUserCount, overlay>>
    /\ UNCHANGED tabSelectedId
    /\ UNCHANGED mainVars

-----------------------------------------------------------------------------
(* App: the store operations *)

\* The renderables after the first run of the effect, on mount.
InitView(st) ==
    /\ meshes = st.meshes
    /\ scene = st.scene
    /\ pendingLoads = st.pendingLoads

Init ==
    /\ heap = INITIAL_OBJECTS
    /\ objects = <<1, 2>>
    /\ historyLog = <<>>
    /\ selectedIds = <<>>
    /\ activeTool = "select"
    /\ idCount = 0
    /\ pendingReads = {}
    /\ InitView(Reconcile([meshes |-> EmptyMeshes, scene |-> {}, pendingLoads |-> {}],
                          INITIAL_OBJECTS, <<>>, FALSE))
    /\ isDraggingObject = FALSE
    /\ camDragging = FALSE
    /\ dragOffset = <<0, 0, 0>>
    /\ dragTarget = ""
    /\ alert = ""
    /\ lastRestored = ""
    /\ opCount = 0
    /\ consoleError = ""
    /\ camera = [radius |-> 1000, theta |-> 7854, phi |-> 10472]
    /\ downloads = <<>>
    /\ InitCollab

dragVars == <<isDraggingObject, camDragging, dragOffset, dragTarget>>

AddObjectKeepTool(type, x, y, color) ==
    LET newObj == NewObject(GenerateId(idCount + 1), type, x, y, color)
        h == Append(heap, newObj)
    IN  /\ UpdateState(h, Append(objects, Len(h)), "Add " \o type, 1)
        /\ selectedIds' = <<newObj.id>>
        /\ alert' = ""
        /\ lastRestored' = ""
        /\ UNCHANGED collabVars
        /\ consoleError' = ""
        /\ UNCHANGED camera
        /\ UNCHANGED downloads
        /\ UNCHANGED <<activeTool, pendingReads, dragVars>>
        /\ RunReconcile

\* addObject(type); x, y and color are the random draws.
AddObject(type, x, y, color) ==
    LET newObj == NewObject(GenerateId(idCount + 1), type, x, y, color)
        h == Append(heap, newObj)
    IN  /\ UpdateState(h, Append(objects, Len(h)), "Add " \o type, 1)
        /\ selectedIds' = <<newObj.id>>
        /\ activeTool' = "move"
        /\ alert' = ""
        /\ lastRestored' = ""
        /\ UNCHANGED collabVars
        /\ consoleError' = ""
        /\ UNCHANGED camera
        /\ UNCHANGED downloads
        /\ UNCHANGED <<pendingReads, dragVars>>
        /\ RunReconcile

RestoreStateKeepSelection(k) ==
    /\ k \in DOMAIN historyLog
    /\ objects' = historyLog[k].snapshot
    /\ alert' = ""
    /\ lastRestored' = historyLog[k].id
    /\ UNCHANGED collabVars
    /\ consoleError' = ""
    /\ UNCHANGED camera
    /\ UNCHANGED downloads
    /\ UNCHANGED <<heap, historyLog, selectedIds, activeTool, idCount, opCount, pendingReads,
                   dragVars>>
    /\ RunReconcile

RestoreStateLogged(k) ==
    /\ k \in DOMAIN historyLog
    /\ UpdateState(heap, historyLog[k].snapshot, "Restore", 0)
    /\ selectedIds' = <<>>
    /\ alert' = ""
    /\ lastRestored' = historyLog[k].id
    /\ UNCHANGED collabVars
    /\ consoleError' = ""
    /\ UNCHANGED camera
    /\ UNCHANGED downloads
    /\ UNCHANGED <<activeTool, pendingReads, dragVars>>
    /\ RunReconcile

RestoreStateToggle(k) ==
    /\ k \in DOMAIN historyLog
    /\ objects' = IF objects = historyLog[k].snapshot THEN <<>> ELSE historyLog[k].snapshot
    /\ selectedIds' = <<>>
    /\ alert' = ""
    /\ lastRestored' = historyLog[k].id
    /\ UNCHANGED collabVars
    /\ consoleError' = ""
    /\ UNCHANGED camera
    /\ UNCHANGED downloads
    /\ UNCHANGED <<heap, historyLog, activeTool, idCount, opCount, pendingReads, dragVars>>
    /\ RunReconcile

\* restoreState(entry.snapshot) for the k-th entry of the log.
RestoreState(k) ==
    /\ k \in DOMAIN historyLog
    /\ objects' = historyLog[k].snapshot
    /\ selectedIds' = <<>>
    /\ alert' = ""
    /\ lastRestored' = historyLog[k].id
    /\ UNCHANGED collabVars
    /\ consoleError' = ""
    /\ UNCHANGED camera
    /\ UNCHANGED downloads
    /\ UNCHANGED <<heap, historyLog, activeTool, idCount, opCount, pendingReads, dragVars>>
    /\ RunReconcile

\* onSelect(id, multi); "" stands for the null id.
OnSelect(id, multi) ==
    selectedIds' = IF id = "" THEN (IF ~multi THEN <<>> ELSE selectedIds)
                   ELSE SelectUpdate(selectedIds, id, multi)

\* A call of onSelect on its own, as through the onSelect prop of ThreeScene.
SelectCall(id, multi) ==
    /\ OnSelect(id, multi)
    /\ alert' = ""
    /\ lastRestored' = ""
    /\ UNCHANGED collabVars
    /\ consoleError' = ""
    /\ UNCHANGED camera
    /\ UNCHANGED downloads
    /\ UNCHANGED <<heap, objects, historyLog, activeTool, idCount, opCount, pendingReads,
                   dragVars>>
    /\ RunReconcile

\* The click handler of a row of the scene objects list.
ListClick(id, shift) ==
    /\ id \in Ids(Live)
    /\ OnSelect(id, shift)
    /\ activeTool' = "move"
    /\ alert' = ""
    /\ lastRestored' = ""
    /\ UNCHANGED collabVars
    /\ consoleError' = ""
    /\ UNCHANGED camera
    /\ UNCHANGED downloads
    /\ UNCHANGED <<heap, objects, historyLog, idCount, opCount, pendingReads, dragVars>>
    /\ RunReconcile

SetActiveTool(tool) ==
    /\ activeTool' = tool
    /\ alert' = ""
    /\ lastRestored' = ""
    /\ UNCHANGED collabVars
    /\ consoleError' = ""
    /\ UNCHANGED camera
    /\ UNCHANGED downloads
    /\ UNCHANGED <<heap, objects, historyLog, selectedIds, idCount, opCount, pendingReads,
                   viewVars>>

\* What the handlers that only map the objects and log the result have in common.
Mutate(r, label) ==
    /\ Updated(r, label)
    /\ alert' = ""
    /\ lastRestored' = ""
    /\ UNCHANGED collabVars
    /\ consoleError' = ""
    /\ UNCHANGED camera
    /\ UNCHANGED downloads
    /\ UNCHANGED <<selectedIds, activeTool, pendingReads, dragVars>>
    /\ RunReconcile

UpdateTransform(id, type, axis, value) ==
    Mutate(UpdateTransformMap(heap, objects, id, type, axis, value),
           "Set " \o ToUpperCase(axis) \o " " \o type \o " of " \o id)

UpdateObject(id, field, value) ==
    Mutate(UpdateObjectMap(heap, objects, id, field, value),
           "Update " \o field \o " of " \o id)

UpdateExtrudeSetting(id, setting, value) ==
    Mutate(UpdateExtrudeSettingMap(heap, objects, id, setting, value),
           "Update " \o setting)

UpdateMirrorSetting(id, setting, value) ==
    Mutate(UpdateMirrorSettingMap(heap, objects, id, setting, value),
           "Update Mirror " \o setting)

DeleteObject(id) ==
    /\ UpdateState(heap, FilterObjects(heap, objects, {id}),
                   "Delete Object " \o id, 0)
    /\ selectedIds' = Without(selectedIds, id)
    /\ alert' = ""
    /\ lastRestored' = ""
    /\ UNCHANGED collabVars
    /\ consoleError' = ""
    /\ UNCHANGED camera
    /\ UNCHANGED downloads
    /\ UNCHANGED <<activeTool, pendingReads, dragVars>>
    /\ RunReconcile

HandleKeyDownAnywhere(isInputFocused) ==
    /\ alert' = ""
    /\ lastRestored' = ""
    /\ UNCHANGED collabVars
    /\ consoleError' = ""
    /\ UNCHANGED camera
    /\ UNCHANGED downloads
    /\ IF Len(selectedIds) > 0
       THEN /\ UpdateState(heap,
                           FilterObjects(heap, objects, Range(selectedIds)),
                           "Delete Selected", 0)
            /\ selectedIds' = <<>>
            /\ UNCHANGED <<activeTool, pendingReads, dragVars>>
            /\ RunReconcile
       ELSE UNCHANGED <<storeVars, pendingReads, viewVars>>

\* handleKeyDown for a Delete or Backspace key press.
HandleKeyDown(isInputFocused) ==
    /\ alert' = ""
    /\ lastRestored' = ""
    /\ UNCHANGED collabVars
    /\ consoleError' = ""
    /\ UNCHANGED camera
    /\ UNCHANGED downloads
    /\ IF ~isInputFocused /\ Len(selectedIds) > 0
       THEN /\ UpdateState(heap,
                           FilterObjects(heap, objects, Range(selectedIds)),
                           "Delete Selected", 0)
            /\ selectedIds' = <<>>
            /\ UNCHANGED <<activeTool, pendingReads, dragVars>>
            /\ RunReconcile
       ELSE UNCHANGED <<storeVars, pendingReads, viewVars>>

\* addModel(url, format) of handleFileUpload, run with the objects its closure captured.
AddModel(captured, file, format) ==
    LET newObj == NewModel(GenerateId(idCount + 1), format, file.name, <<0, 0, 0>>)
        h == Append(heap, newObj)
    IN  /\ UpdateState(h, Append(captured, Len(h)), "Import " \o file.name, 1)
        /\ selectedIds' = <<newObj.id>>

\* handleFileUpload: a .json file is read asynchronously, any other file is imported at once.
HandleFileUpload(file) ==
    /\ alert' = ""
    /\ lastRestored' = ""
    /\ UNCHANGED collabVars
    /\ consoleError' = ""
    /\ UNCHANGED camera
    /\ UNCHANGED downloads
    /\ IF EndsWithJson(file.name)
       THEN /\ pendingReads' = pendingReads \cup {[file |-> file, objects |-> objects]}
            /\ UNCHANGED <<storeVars, viewVars>>
       ELSE /\ AddModel(objects, file, Extension(file.name))
            /\ UNCHANGED <<activeTool, pendingReads, dragVars>>
            /\ RunReconcile

\* handleExportClick: the browser saves JSON.stringify(objects) as scene.json.
HandleExportClick ==
    /\ downloads' = Append(downloads, [doc |-> JsonStringify(Live), snapshot |-> Live])
    /\ alert' = ""
    /\ lastRestored' = ""
    /\ consoleError' = ""
    /\ UNCHANGED <<storeVars, pendingReads, viewVars, camera, collabVars>>

\* reader.onload of handleFileUpload for the read p.
ReaderOnload(p) ==
    /\ p \in pendingReads
    /\ pendingReads' = pendingReads \ {p}
    /\ alert' = ""
    /\ lastRestored' = ""
    /\ UNCHANGED collabVars
    /\ consoleError' = IF JsonParse(p.file.text) = "throws" THEN "Invalid JSON" ELSE ""
    /\ UNCHANGED camera
    /\ UNCHANGED downloads
    /\ LET parsed == JsonParse(p.file.text)
           doc == SceneDocument(p.file.text)
       IN  CASE parsed = "throws" -> UNCHANGED <<storeVars, viewVars>>
             [] parsed = "array" ->
                    /\ UpdateState(heap \o doc, [i \in DOMAIN doc |-> Len(heap) + i],
                                   "Load Scene " \o p.file.name, 0)
                    /\ UNCHANGED <<selectedIds, activeTool, dragVars>>
                    /\ RunReconcile
             [] OTHER ->
                    /\ AddModel(p.objects, p.file, "json")
                    /\ UNCHANGED <<activeTool, dragVars>>
                    /\ RunReconcile

WrongCountBelow(sel) == Len(sel) < 2

\* selectedIds.length !== 2
WrongCount(sel) == Len(sel) # 2

CreateMeshAny(obj) == TRUE

\* createMesh of performCSG returns null for a model.
CreateMeshSupported(obj) == obj.type # "model"

CountNotice(n) == "Please select exactly 2 objects. Currently selected: " \o ToString(n)
KindNotice == "CSG only supports primitives/shapes for now."

CsgRemainingButFirst(h, refs, sel) == FilterObjects(h, refs, {sel[1]})

\* objects.filter(o => !selectedIds.includes(o.id))
CsgRemaining(h, refs, sel) == FilterObjects(h, refs, Range(sel))

\* performCSG(op); center is the centre of the bounding box of the evaluated solid.
PerformCSG(op, center) ==
    LET obj1 == Find(Live, selectedIds[1])
        obj2 == Find(Live, selectedIds[2])
        newObj == [NewModel(GenerateId(idCount + 1), "json_data", "CSG Result", center)
                      EXCEPT !.color = "#ffffff"]
        rest == CsgRemaining(heap, objects, selectedIds)
        h == Append(heap, newObj)
    IN  /\ lastRestored' = ""
        /\ UNCHANGED collabVars
        /\ consoleError' = ""
        /\ UNCHANGED camera
        /\ UNCHANGED downloads
        /\ IF WrongCount(selectedIds)
           THEN /\ alert' = CountNotice(Len(selectedIds))
                /\ UNCHANGED <<storeVars, pendingReads, viewVars>>
           ELSE IF obj1 = Undefined \/ obj2 = Undefined
           THEN /\ alert' = ""
                /\ UNCHANGED <<storeVars, pendingReads, viewVars>>
           ELSE IF ~CreateMeshSupported(obj1) \/ ~CreateMeshSupported(obj2)
           THEN /\ alert' = KindNotice
                /\ UNCHANGED <<storeVars, pendingReads, viewVars>>
           ELSE /\ alert' = ""
                /\ UpdateState(h, Append(rest, Len(h)), "CSG Operation", 1)
                /\ selectedIds' = <<newObj.id>>
                /\ UNCHANGED <<activeTool, pendingReads, dragVars>>
                /\ RunReconcile

-----------------------------------------------------------------------------
(* ThreeScene: the pointer handlers *)

\* The renderables a ray can hit: a Mesh, or a Group that holds a loaded child.
Hittable == {k \in DOMAIN meshes : ~meshes[k].isGroup \/ meshes[k].children > 0}

Add(a, b) == [i \in 1..3 |-> a[i] + b[i]]

OnDownKeepOrbit(hit, shiftKey, offset) ==
    /\ hit \in Hittable \cup {""}
    /\ alert' = ""
    /\ lastRestored' = ""
    /\ UNCHANGED collabVars
    /\ consoleError' = ""
    /\ UNCHANGED camera
    /\ UNCHANGED downloads
    /\ UNCHANGED <<heap, objects, historyLog, activeTool, idCount, opCount, pendingReads>>
    /\ IF hit # ""
       THEN /\ OnSelect(meshes[hit].id, shiftKey)
            /\ IF activeTool = "move"
               THEN /\ isDraggingObject' = TRUE
                    /\ dragOffset' = offset
                    /\ camDragging' = TRUE
                    /\ dragTarget' = hit
               ELSE /\ camDragging' = TRUE
                    /\ UNCHANGED <<isDraggingObject, dragOffset, dragTarget>>
       ELSE /\ OnSelect("", FALSE)
            /\ camDragging' = TRUE
            /\ UNCHANGED <<isDraggingObject, dragOffset, dragTarget>>
    /\ RunReconcile

\* onDown: `hit` is the userData.id found from the first intersection ("" for a
\* miss), `offset` is the hit renderable's position minus the intersection point.
OnDown(hit, shiftKey, offset) ==
    /\ hit \in Hittable \cup {""}
    /\ alert' = ""
    /\ lastRestored' = ""
    /\ UNCHANGED collabVars
    /\ consoleError' = ""
    /\ UNCHANGED camera
    /\ UNCHANGED downloads
    /\ UNCHANGED <<heap, objects, historyLog, activeTool, idCount, opCount, pendingReads>>
    /\ IF hit # ""
       THEN /\ OnSelect(meshes[hit].id, shiftKey)
            /\ IF activeTool = "move"
               THEN /\ isDraggingObject' = TRUE
                    /\ dragOffset' = offset
                    /\ camDragging' = FALSE
                    /\ dragTarget' = hit
               ELSE /\ camDragging' = TRUE
                    /\ UNCHANGED <<isDraggingObject, dragOffset, dragTarget>>
       ELSE /\ OnSelect("", FALSE)
            /\ camDragging' = TRUE
            /\ UNCHANGED <<isDraggingObject, dragOffset, dragTarget>>
    /\ RunReconcile

MathMinSkipped(a, b) == b

MathMin(a, b) == IF a < b THEN a ELSE b
MathMax(a, b) == IF a > b THEN a ELSE b

\* The camera after a pointer move of (dx, dy) pixels while orbiting: 0.005 rad
\* per pixel, phi kept within [0.1, Math.PI - 0.1].
Orbit(cam, dx, dy) ==
    [cam EXCEPT !.theta = @ - dx * 50,
                !.phi = MathMax(PhiMin, MathMin(PhiMax, @ - dy * 50))]

\* The camera after a wheel event: 0.01 per unit of deltaY, radius kept within [2, 50].
Zoom(cam, deltaY) ==
    [cam EXCEPT !.radius = MathMax(RadiusMin, MathMin(RadiusMax, @ + deltaY))]

\* onMove: `point` is where the pointer ray meets the drag plane, `delta` is how
\* far, in pixels, the pointer is from its place at the last camera event.
OnMove(point, delta) ==
    /\ alert' = ""
    /\ lastRestored' = ""
    /\ UNCHANGED collabVars
    /\ consoleError' = ""
    /\ UNCHANGED <<storeVars, pendingReads, scene, pendingLoads, dragVars>>
    /\ IF isDraggingObject /\ Len(selectedIds) > 0
       THEN /\ meshes' = IF Last(selectedIds) \in DOMAIN meshes
                         THEN [meshes EXCEPT
                                  ![Last(selectedIds)].position = Add(point, dragOffset)]
                         ELSE meshes
            /\ UNCHANGED camera
            /\ UNCHANGED downloads
       ELSE /\ meshes' = meshes
            /\ camera' = IF camDragging THEN Orbit(camera, delta[1], delta[2]) ELSE camera
            /\ UNCHANGED downloads

\* onWheel
OnWheel(deltaY) ==
    /\ camera' = Zoom(camera, deltaY)
    /\ UNCHANGED downloads
    /\ alert' = ""
    /\ lastRestored' = ""
    /\ consoleError' = ""
    /\ UNCHANGED collabVars
    /\ UNCHANGED <<storeVars, pendingReads, viewVars>>

\* onUpdateObjectPosition(id, newPos)
OnUpdateObjectPosition(id, newPos) ==
    Updated(UpdatePositionMap(heap, objects, id, newPos), "Move Object " \o id)

\* onUp
OnUp ==
    /\ alert' = ""
    /\ lastRestored' = ""
    /\ UNCHANGED collabVars
    /\ consoleError' = ""
    /\ UNCHANGED camera
    /\ UNCHANGED downloads
    /\ isDraggingObject' = FALSE
    /\ camDragging' = FALSE
    /\ dragTarget' = ""
    /\ UNCHANGED <<dragOffset, pendingReads>>
    /\ IF isDraggingObject /\ Len(selectedIds) > 0
          /\ Last(selectedIds) \in DOMAIN meshes
       THEN /\ OnUpdateObjectPosition(Last(selectedIds), meshes[Last(selectedIds)].position)
            /\ UNCHANGED <<selectedIds, activeTool>>
            /\ RunReconcile
       ELSE UNCHANGED <<storeVars, meshes, scene, pendingLoads>>

LoadCompleteRecached(inst) ==
    /\ inst \in pendingLoads
    /\ pendingLoads' = pendingLoads \ {inst}
    /\ meshes' = [k \in DOMAIN meshes |->
                     IF meshes[k].inst = inst
                     THEN [meshes[k] EXCEPT !.children = @ + 1] ELSE meshes[k]]
    /\ scene' = scene \cup {inst}
    /\ alert' = ""
    /\ lastRestored' = ""
    /\ UNCHANGED collabVars
    /\ consoleError' = ""
    /\ UNCHANGED camera
    /\ UNCHANGED downloads
    /\ UNCHANGED <<storeVars, pendingReads, dragVars>>

\* The callback of a loader: the loaded content is added to the Group it was
\* started for, which may or may not still be in the cache.
LoadComplete(inst) ==
    /\ inst \in pendingLoads
    /\ pendingLoads' = pendingLoads \ {inst}
    /\ meshes' = [k \in DOMAIN meshes |->
                     IF meshes[k].inst = inst
                     THEN [meshes[k] EXCEPT !.children = @ + 1] ELSE meshes[k]]
    /\ alert' = ""
    /\ lastRestored' = ""
    /\ UNCHANGED collabVars
    /\ consoleError' = ""
    /\ UNCHANGED camera
    /\ UNCHANGED downloads
    /\ UNCHANGED <<storeVars, pendingReads, scene, dragVars>>

-----------------------------------------------------------------------------
(* Specification *)

\* The bounds of the exploration.
Bounded ==
    /\ opCount <= MaxOps
    /\ Len(objects) <= MaxObjects
    /\ Cardinality(pendingReads) <= MaxPending
    /\ Cardinality(pendingLoads) <= MaxLoads

\* const selectedObject = selectedIds.length === 1 ? objects.find(...) : null
SelectedObject == IF Len(selectedIds) = 1 THEN Find(Live, selectedIds[1]) ELSE Undefined

\* The properties panel is rendered for the selected object only.
Panel == SelectedObject # Undefined

\* The extrusion controls are rendered for an object that has extrusion settings.
ExtrudePanel == Panel /\ SelectedObject.extrudeSettings # Undefined

\* The store: the operations of the side panels, the toolbar and the keyboard.
Next ==
    \/ \E type \in {"sphere"}, x \in RandomCoords, y \in RandomCoords, color \in Palette :
          AddObject(type, x, y, color) /\ Bounded'
    \/ \E k \in DOMAIN historyLog : RestoreState(k) /\ Bounded'
    \/ \E id \in Ids(Live), shift \in BOOLEAN : ListClick(id, shift) /\ Bounded'
    \/ Panel /\ UpdateTransform(SelectedObject.id, "position", "x", "2") /\ Bounded'
    \/ \E color \in PickedColors :
          Panel /\ UpdateObject(SelectedObject.id, "color", color) /\ Bounded'
    \/ \E value \in RawValues :
          ExtrudePanel /\ UpdateExtrudeSetting(SelectedObject.id, "depth", value) /\ Bounded'
    \/ Panel /\ UpdateMirrorSetting(SelectedObject.id, "enabled", TRUE) /\ Bounded'
    \/ Panel /\ DeleteObject(SelectedObject.id) /\ Bounded'
    \/ \E focused \in BOOLEAN : HandleKeyDown(focused) /\ Bounded'
    \/ \E file \in ModelFiles : HandleFileUpload(file) /\ Bounded'
    \/ \E inst \in pendingLoads : LoadComplete(inst) /\ Bounded'
    \/ \E center \in CsgCenters : PerformCSG("SUBTRACTION", center) /\ Bounded'

Spec == Init /\ [][Next]_vars

\* mousedown is heard on the canvas, mouseup on the window: from a mousedown on
\* the canvas until the next mouseup one of the two drag flags is set, and the
\* mouse can reach no other control.
PointerFree == ~isDraggingObject /\ ~camDragging

\* The viewport: the pointer handlers, with the store operations that set the
\* scene for them.
NextView ==
    \/ \E hit \in Hittable \cup {""}, shift \in BOOLEAN :
          PointerFree /\ OnDown(hit, shift, <<0, 0, 0>>) /\ Bounded'
    \/ \E point \in PlanePoints : OnMove(point, <<0, 0>>) /\ Bounded'
    \/ OnUp /\ Bounded'
    \/ \E tool \in Tools : PointerFree /\ SetActiveTool(tool) /\ Bounded'
    \/ \E id \in Ids(Live), shift \in BOOLEAN : PointerFree /\ ListClick(id, shift) /\ Bounded'
    \/ PointerFree /\ Panel /\ UpdateMirrorSetting(SelectedObject.id, "enabled", TRUE) /\ Bounded'

SpecView == Init /\ [][NextView]_vars

\* The mirror controls of the properties panel, with the edits and pointer
\* gestures that make the effect rebuild, move or drop a renderable.
BoundedMirror ==
    /\ opCount <= MaxMirrorOps
    /\ Len(objects) <= MaxObjects

NextMirror ==
    \/ PointerFree /\ ListClick("2", FALSE) /\ BoundedMirror'
    \/ \E enabled \in BOOLEAN :
          PointerFree /\ Panel
          /\ UpdateMirrorSetting(SelectedObject.id, "enabled", enabled) /\ BoundedMirror'
    \/ \E axis \in Axes :
          PointerFree /\ Panel
          /\ UpdateMirrorSetting(SelectedObject.id, "axis", axis) /\ BoundedMirror'
    \/ PointerFree /\ Panel
          /\ UpdateTransform(SelectedObject.id, "scale", "y", "2") /\ BoundedMirror'
    \/ PointerFree /\ ExtrudePanel
          /\ UpdateExtrudeSetting(SelectedObject.id, "depth", "2") /\ BoundedMirror'
    \/ PointerFree /\ Panel /\ DeleteObject(SelectedObject.id) /\ BoundedMirror'
    \/ \E k \in DOMAIN historyLog : PointerFree /\ RestoreState(k) /\ BoundedMirror'
    \/ PointerFree /\ SetActiveTool("move") /\ BoundedMirror'
    \/ \E hit \in Hittable :
          PointerFree /\ OnDown(hit, FALSE, <<0, 0, 0>>) /\ BoundedMirror'
    \/ \E point \in PlanePoints : OnMove(point, <<0, 0>>) /\ BoundedMirror'
    \/ OnUp /\ BoundedMirror'

SpecMirror == Init /\ [][NextMirror]_vars

\* Model imports whose loader is still running while the scene is edited.
LoadFiles == {f \in Files : f.name \in {"part.glb", "scene.json"}}

NextLoads ==
    \/ \E file \in LoadFiles : HandleFileUpload(file) /\ Bounded'
    \/ \E p \in pendingReads : ReaderOnload(p) /\ Bounded'
    \/ \E inst \in pendingLoads : LoadComplete(inst) /\ Bounded'
    \/ \E id \in Ids(Live), shift \in BOOLEAN : ListClick(id, shift) /\ Bounded'
    \/ Panel /\ DeleteObject(SelectedObject.id) /\ Bounded'
    \/ \E k \in DOMAIN historyLog : RestoreState(k) /\ Bounded'
    \/ \E center \in CsgCenters : PerformCSG("SUBTRACTION", center) /\ Bounded'

SpecLoads == Init /\ [][NextLoads]_vars

\* The collaborative variant: two tabs that join, edit and exchange messages.
BoundedCollab ==
    /\ saveCount <= MaxSaves
    /\ \A t \in Tabs : Len(inbox[t]) <= MaxInFlight

NextCollab ==
    \/ \E t \in Tabs : HandleJoin(t) /\ BoundedCollab'
    \/ \E t \in Tabs : SendHeartbeat(t) /\ BoundedCollab'
    \/ \E t \in Tabs : CollabAddObject(t, "cube") /\ BoundedCollab'
    \/ \E t \in Tabs, id \in {"1"} : CollabDeleteObject(t, id) /\ BoundedCollab'
    \/ \E t \in Tabs : OnMessage(t) /\ BoundedCollab'
    \/ \E t \in Tabs : ResetFlag(t) /\ BoundedCollab'

SpecCollab == Init /\ [][NextCollab]_vars

\* Presence: heartbeats and cursor positions arrive while time passes, and the
\* cleanup interval runs at any moment.
BoundedPresence ==
    /\ now <= MaxTime
    /\ \A t \in Tabs : Len(inbox[t]) <= MaxInFlight

NextPresence ==
    \/ \E t \in Tabs : HandleJoin(t) /\ BoundedPresence'
    \/ SendHeartbeat("B") /\ BoundedPresence'
    \/ \E point \in CursorPoints : BroadcastCursor("B", point[1], point[2]) /\ BoundedPresence'
    \/ OnMessage("A") /\ BoundedPresence'
    \/ \E t \in Tabs : Cleanup(t) /\ BoundedPresence'
    \/ Tick /\ BoundedPresence'

SpecPresence == Init /\ [][NextPresence]_vars

\* Where the ids of a snapshot come from: generateId for the objects the
\* program creates, the document for the objects of a loaded scene.
NextIds ==
    \/ \E type \in AddTypes, x \in RandomCoords, y \in RandomCoords, color \in Palette :
          AddObject(type, x, y, color) /\ Bounded'
    \/ \E file \in ModelFiles \cup ForeignFiles \cup {f \in Files : f.name = "cube.json"} :
          HandleFileUpload(file) /\ Bounded'
    \/ \E p \in pendingReads : ReaderOnload(p) /\ Bounded'
    \/ \E id \in Ids(Live) : ListClick(id, FALSE) /\ Bounded'
    \/ \E id \in Ids(Live) : DeleteObject(id) /\ Bounded'
    \/ \E k \in DOMAIN historyLog : RestoreState(k) /\ Bounded'

SpecIds == Init /\ [][NextIds]_vars

\* The orbit camera: drags that start on empty space, and the wheel.
BoundedCamera == camera.theta <= MaxTheta /\ -camera.theta <= MaxTheta

NextCamera ==
    \/ \E shift \in BOOLEAN : PointerFree /\ OnDown("", shift, <<0, 0, 0>>) /\ BoundedCamera'
    \/ \E point \in PlanePoints, delta \in MouseDeltas : OnMove(point, delta) /\ BoundedCamera'
    \/ OnUp /\ BoundedCamera'
    \/ \E deltaY \in WheelDeltas : OnWheel(deltaY) /\ BoundedCamera'

SpecCamera == Init /\ [][NextCamera]_vars

\* The geometry factory: objects of every type the toolbar offers, and objects
\* of a loaded scene whose types it does not offer, get their renderable.
ShapeTypes == Primitives \cup ExtrudedProfiles

NextGeometry ==
    \/ \E type \in ShapeTypes, x \in RandomCoords, y \in RandomCoords, color \in Palette :
          AddObject(type, x, y, color) /\ Bounded'
    \/ \E file \in ForeignFiles : HandleFileUpload(file) /\ Bounded'
    \/ \E p \in pendingReads : ReaderOnload(p) /\ Bounded'
    \/ \E id \in Ids(Live) : DeleteObject(id) /\ Bounded'
    \/ \E value \in RawValues :
          ExtrudePanel /\ UpdateExtrudeSetting(SelectedObject.id, "depth", value) /\ Bounded'

SpecGeometry == Init /\ [][NextGeometry]_vars

\* Export and import: the documents Export has written are picked again.
ExportedFiles == {[name |-> "scene.json", text |-> ExportText(n)] : n \in DOMAIN downloads}

BoundedExport == Bounded /\ Len(downloads) <= MaxExports

NextExport ==
    \/ HandleExportClick /\ BoundedExport'
    \/ \E file \in ExportedFiles : HandleFileUpload(file) /\ BoundedExport'
    \/ \E p \in pendingReads : ReaderOnload(p) /\ BoundedExport'
    \/ \E id \in Ids(Live) : ListClick(id, FALSE) /\ BoundedExport'
    \/ \E value \in RawValues :
          ExtrudePanel /\ UpdateExtrudeSetting(SelectedObject.id, "depth", value)
          /\ BoundedExport'
    \/ \E type \in AddTypes, x \in RandomCoords, y \in RandomCoords, color \in Palette :
          AddObject(type, x, y, color) /\ BoundedExport'
    \/ \E id \in Ids(Live) : DeleteObject(id) /\ BoundedExport'

SpecExport == Init /\ [][NextExport]_vars

\* The renderable cache: every operation that removes, replaces or brings back
\* objects, with the mirror and extrusion controls.
NextCache ==
    \/ \E id \in Ids(Live), shift \in BOOLEAN : ListClick(id, shift) /\ Bounded'
    \/ \E enabled \in BOOLEAN :
          Panel /\ UpdateMirrorSetting(SelectedObject.id, "enabled", enabled) /\ Bounded'
    \/ \E value \in RawValues :
          ExtrudePanel /\ UpdateExtrudeSetting(SelectedObject.id, "depth", value) /\ Bounded'
    \/ \E id \in Ids(Live) : DeleteObject(id) /\ Bounded'
    \/ \E k \in DOMAIN historyLog : RestoreState(k) /\ Bounded'
    \/ \E file \in {f \in Files \cup ForeignFiles : f.name \in {"cube.json", "swap.json"}} :
          HandleFileUpload(file) /\ Bounded'
    \/ \E p \in pendingReads : ReaderOnload(p) /\ Bounded'
    \/ \E center \in CsgCenters : PerformCSG("SUBTRACTION", center) /\ Bounded'

SpecCache == Init /\ [][NextCache]_vars

\* The boolean operation, requested over selections that scene loads have
\* left behind.
NextCsg ==
    \/ \E id \in Ids(Live), shift \in BOOLEAN : ListClick(id, shift) /\ Bounded'
    \/ \E file \in {f \in Files : f.name \in {"scene.json", "cube.json", "broken.json"}} :
          HandleFileUpload(file) /\ Bounded'
    \/ \E p \in pendingReads : ReaderOnload(p) /\ Bounded'
    \/ \E center \in CsgCenters : PerformCSG("SUBTRACTION", center) /\ Bounded'

SpecCsg == Init /\ [][NextCsg]_vars

\* The mouse with more than one button: mousedown is heard for every button
\* pressed over the canvas, also while another button is held.
NextButtons ==
    \/ \E hit \in Hittable \cup {""}, shift \in BOOLEAN :
          OnDown(hit, shift, <<0, 0, 0>>) /\ Bounded'
    \/ \E point \in PlanePoints, delta \in {<<0, 40>>} : OnMove(point, delta) /\ Bounded'
    \/ OnUp /\ Bounded'
    \/ \E deltaY \in {3000} : OnWheel(deltaY) /\ Bounded'
    \/ \E tool \in Tools : PointerFree /\ SetActiveTool(tool) /\ Bounded'

SpecButtons == Init /\ [][NextButtons]_vars

\* The file picker: the asynchronous reads of .json files.
NextFiles ==
    \/ \E file \in Files : HandleFileUpload(file) /\ Bounded'
    \/ \E p \in pendingReads : ReaderOnload(p) /\ Bounded'
    \/ \E id \in Ids(Live), shift \in BOOLEAN : ListClick(id, shift) /\ Bounded'
    \/ \E k \in DOMAIN historyLog : RestoreState(k) /\ Bounded'
    \/ Panel /\ DeleteObject(SelectedObject.id) /\ Bounded'
    \/ \E type \in {"sphere"}, x \in RandomCoords, y \in RandomCoords, color \in Palette :
          AddObject(type, x, y, color) /\ Bounded'

SpecFiles == Init /\ [][NextFiles]_vars

\* A long editing session: after a free choice of the first operations, one
\* property of the selected object is edited over and over until the log has
\* been full for several operations.
BoundedHist ==
    /\ opCount <= HistoryCap + HistExtraOps
    /\ Len(objects) <= MaxObjects

NextHist ==
    \/ \E id \in Ids(Live) :
          (opCount < HistFreeOps \/ ~Panel) /\ ListClick(id, FALSE) /\ BoundedHist'
    \/ \E type \in {"sphere"}, x \in RandomCoords, y \in RandomCoords, color \in Palette :
          opCount < HistFreeOps /\ AddObject(type, x, y, color) /\ BoundedHist'
    \/ opCount < HistFreeOps /\ Panel /\ DeleteObject(SelectedObject.id) /\ BoundedHist'
    \/ opCount < HistFreeOps /\ Panel
          /\ UpdateTransform(SelectedObject.id, "position", "x", "2") /\ BoundedHist'
    \/ \E k \in DOMAIN historyLog : opCount <= HistFreeOps /\ RestoreState(k) /\ BoundedHist'
    \/ Panel /\ UpdateObject(SelectedObject.id, "wireframe", TRUE) /\ BoundedHist'

SpecHist == Init /\ [][NextHist]_vars

\* The properties panel: every numeric field of the selected object, fed with
\* text that parses and text that does not.
NextPanel ==
    \/ \E id \in Ids(Live) : ListClick(id, FALSE) /\ Bounded'
    \/ \E kind \in TransformKinds, axis \in Axes, value \in RawValues :
          Panel /\ UpdateTransform(SelectedObject.id, kind, axis, value) /\ Bounded'
    \/ \E setting \in NumericSettings, value \in RawValues :
          ExtrudePanel /\ UpdateExtrudeSetting(SelectedObject.id, setting, value) /\ Bounded'
    \/ \E flag \in BOOLEAN :
          ExtrudePanel /\ UpdateExtrudeSetting(SelectedObject.id, "bevelEnabled", flag) /\ Bounded'

SpecPanel == Init /\ [][NextPanel]_vars

\* deleteObject called for any object of the snapshot, whatever the selection.
NextDelete ==
    \/ \E id \in Ids(Live), shift \in BOOLEAN : ListClick(id, shift) /\ Bounded'
    \/ \E type \in {"sphere"}, x \in RandomCoords, y \in RandomCoords, color \in Palette :
          AddObject(type, x, y, color) /\ Bounded'
    \/ \E id \in Ids(Live) : DeleteObject(id) /\ Bounded'
    \/ \E k \in DOMAIN historyLog : RestoreState(k) /\ Bounded'

SpecDelete == Init /\ [][NextDelete]_vars

\* onSelect called with every kind of argument: an object id or null, with and
\* without multi.
NextSelect ==
    \/ \E id \in Ids(Live) \cup {""}, multi \in BOOLEAN : SelectCall(id, multi) /\ Bounded'
    \/ \E type \in {"sphere"}, x \in RandomCoords, y \in RandomCoords, color \in Palette :
          AddObject(type, x, y, color) /\ Bounded'
    \/ \E k \in DOMAIN historyLog : RestoreState(k) /\ Bounded'
    \/ \E id \in Ids(Live) : DeleteObject(id) /\ Bounded'
    \/ \E tool \in Tools : SetActiveTool(tool) /\ Bounded'

SpecSelect == Init /\ [][NextSelect]_vars

\* The toolbar: objects of every kind are added over any selection and tool.
NextAdd ==
    \/ \E type \in AddTypes, x \in RandomCoords, y \in RandomCoords, color \in Palette :
          AddObject(type, x, y, color) /\ Bounded'
    \/ \E id \in Ids(Live), shift \in BOOLEAN : ListClick(id, shift) /\ Bounded'
    \/ \E tool \in Tools : SetActiveTool(tool) /\ Bounded'
    \/ \E id \in Ids(Live) : DeleteObject(id) /\ Bounded'
    \/ \E k \in DOMAIN historyLog : RestoreState(k) /\ Bounded'

SpecAdd == Init /\ [][NextAdd]_vars

-----------------------------------------------------------------------------
(* Properties *)

\* C1: the history log never holds more than 20 entries; an operation that
\* changes the log appends one entry at its end, dropping the oldest entry when
\* the log was full, and the label of the newest entry is the label of that
\* operation.
C1_BoundedFifoLog ==
    [][/\ Len(historyLog') <= HistoryCap
       /\ historyLog' # historyLog =>
             /\ Last(historyLog').id \notin {historyLog[i].id : i \in DOMAIN historyLog}
             /\ historyLog' = IF Len(historyLog) < HistoryCap
                              THEN Append(historyLog, Last(historyLog'))
                              ELSE Append(Tail(historyLog), Last(historyLog'))
       /\ \A type \in AddTypes, x \in RandomCoords, y \in RandomCoords, color \in Palette :
             AddObject(type, x, y, color) => Last(historyLog').label = "Add " \o type
       /\ (Panel /\ DeleteObject(SelectedObject.id))
             => Last(historyLog').label = "Delete Object " \o SelectedObject.id
       /\ (Panel /\ UpdateTransform(SelectedObject.id, "position", "x", "2"))
             => Last(historyLog').label = "Set X position of " \o SelectedObject.id
       /\ (Panel /\ UpdateObject(SelectedObject.id, "wireframe", TRUE))
             => Last(historyLog').label = "Update wireframe of " \o SelectedObject.id
      ]_vars

\* The log is full and older entries have been dropped from it.
C1_Witness == Len(historyLog) = HistoryCap /\ opCount > HistoryCap + 1

\* C2: every operation that calls updateState appends exactly one history
\* entry, and the snapshot of the newest entry deep-equals the live snapshot
\* right after the operation.
C2_NewestEntryEqualsLive ==
    [][opCount' # opCount =>
          /\ Len(historyLog') = Len(historyLog) + 1
          /\ Deref(heap', Last(historyLog').snapshot) = Deref(heap', objects')]_vars

\* C3: an entry that stays in the log keeps its label and the contents of its
\* snapshot, whatever operation runs, an edit made after restoring it included.
C3_EntriesNeverChange ==
    [][\A i \in DOMAIN historyLog : \A j \in DOMAIN historyLog' :
          historyLog'[j].id = historyLog[i].id =>
             /\ historyLog'[j].label = historyLog[i].label
             /\ Deref(heap', historyLog'[j].snapshot) = Deref(heap, historyLog[i].snapshot)]_vars

\* An entry was restored and then edited: the live snapshot still holds one of
\* the entry's own objects, and differs from the entry.
C3_Witness ==
    \E k \in DOMAIN historyLog :
        /\ Range(objects) \cap Range(historyLog[k].snapshot) # {}
        /\ Live # Deref(heap, historyLog[k].snapshot)

\* C4: every id in the selection is the id of an object of the live snapshot.
C4_SelectionWithinSnapshot ==
    \A i \in DOMAIN selectedIds : selectedIds[i] \in Ids(Live)

\* C5: restoring an entry makes the live snapshot equal to the snapshot of that
\* entry and empties the selection.
C5_RestoreInstallsSnapshot ==
    [][lastRestored' # "" =>
          /\ \E k \in DOMAIN historyLog :
                /\ historyLog[k].id = lastRestored'
                /\ Deref(heap', objects') = Deref(heap, historyLog[k].snapshot)
          /\ selectedIds' = <<>>]_vars

\* An entry other than the newest was restored over a different live snapshot.
C5_Witness ==
    /\ lastRestored # ""
    /\ Len(historyLog) = 2
    /\ lastRestored = historyLog[1].id
    /\ Live # Deref(heap, historyLog[2].snapshot)

\* C6: restoring an entry leaves the history log as it was: no entry is added,
\* removed or changed.
C6_RestoreKeepsLog ==
    [][lastRestored' # "" =>
          /\ Len(historyLog') = Len(historyLog)
          /\ \A i \in DOMAIN historyLog :
                /\ historyLog'[i].id = historyLog[i].id
                /\ historyLog'[i].label = historyLog[i].label
                /\ Deref(heap', historyLog'[i].snapshot) = Deref(heap, historyLog[i].snapshot)]_vars

\* The newest of two entries was restored.
C6_Witness ==
    /\ lastRestored # ""
    /\ Len(historyLog) = 2
    /\ lastRestored = historyLog[2].id

\* C7: restoring the entry that the previous operation restored changes nothing:
\* the live snapshot, the selection and the log are as after the first restore.
C7_RestoreIdempotent ==
    [][(lastRestored # "" /\ lastRestored' = lastRestored) =>
          /\ Deref(heap', objects') = Live
          /\ selectedIds' = selectedIds
          /\ historyLog' = historyLog
          /\ meshes' = meshes]_vars

\* An entry was restored while a later entry exists, so a restore changed the
\* live snapshot and the same restore can be repeated.
C7_Witness ==
    /\ lastRestored # ""
    /\ \E k \in DOMAIN historyLog :
          /\ historyLog[k].id = lastRestored
          /\ k < Len(historyLog)
          /\ objects = historyLog[k].snapshot
          /\ Live # <<>>

\* C8: during a drag started by a pointer-down on an object with the move
\* tool, no handler before the pointer-up changes the live snapshot or the
\* log; the pointer-up appends exactly one 'Move Object' entry for the object
\* and stores the position of its renderable.
C8_DragCommitsOnce ==
    [][(isDraggingObject /\ dragTarget \in Ids(Live)) =>
          IF isDraggingObject'
          THEN UNCHANGED <<objects, heap, historyLog>>
          ELSE /\ Len(historyLog') = Len(historyLog) + 1
               /\ Last(historyLog').label = "Move Object " \o dragTarget
               /\ Find(Deref(heap', objects'), dragTarget).position
                     = meshes[dragTarget].position]_vars

\* C9: a boolean operation requested while the selection does not hold exactly
\* two ids changes nothing and raises the notice that asks for two objects.
C9_WrongCountRejected ==
    [][((\E center \in CsgCenters : PerformCSG("SUBTRACTION", center))
           /\ Len(selectedIds) # 2) =>
          /\ UNCHANGED <<heap, objects, historyLog, selectedIds, activeTool, meshes>>
          /\ alert' = CountNotice(Len(selectedIds))]_vars

\* Three objects are selected and the request was rejected.
C9_Witness == Len(selectedIds) = 3 /\ alert = CountNotice(3)

\* C10: a boolean operation on two selected objects of which one is an imported
\* model changes nothing and raises the notice that only primitives and shapes
\* are supported.
C10_ModelOperandRejected ==
    [][((\E center \in CsgCenters : PerformCSG("SUBTRACTION", center))
           /\ Len(selectedIds) = 2
           /\ (\A i \in 1..2 : selectedIds[i] \in Ids(Live))
           /\ (\E j \in 1..2 : Find(Live, selectedIds[j]).type = "model")) =>
          /\ UNCHANGED <<heap, objects, historyLog, selectedIds, activeTool, meshes>>
          /\ alert' = KindNotice]_vars

\* A model and another object are selected and the request was rejected.
C10_Witness ==
    /\ alert = KindNotice
    /\ Len(selectedIds) = 2
    /\ \E i \in 1..2 : Find(Live, selectedIds[i]).type = "model"

\* C11: a boolean operation on two selected objects that are both in the
\* snapshot and both primitives or shapes removes the two operands, keeps the
\* other objects as they were and in their order, appends one new model object
\* with an inline payload, identity rotation and scale, white, not wireframe,
\* selects exactly that object, and appends one entry labelled 'CSG Operation'.
C11_CsgReplacesOperands ==
    [][((\E center \in CsgCenters : PerformCSG("SUBTRACTION", center))
           /\ Len(selectedIds) = 2
           /\ (\A i \in 1..2 : selectedIds[i] \in Ids(Live))
           /\ (\A j \in 1..2 : Find(Live, selectedIds[j]).type # "model")) =>
          LET after == Deref(heap', objects')
              N == after[Len(after)]
          IN  /\ Len(after) >= 1
              /\ SubSeq(after, 1, Len(after) - 1)
                    = SelectSeq(Live, LAMBDA o : o.id \notin Range(selectedIds))
              /\ N.id \notin Ids(Live)
              /\ N.type = "model" /\ N.format = Str("json_data")
              /\ N.rotation = <<0, 0, 0>> /\ N.scale = <<10, 10, 10>>
              /\ N.color = "#ffffff" /\ N.wireframe = FALSE
              /\ selectedIds' = <<N.id>>
              /\ Len(historyLog') = Len(historyLog) + 1
              /\ Last(historyLog').label = "CSG Operation"]_vars

\* A boolean operation succeeded in a scene of three objects: the object that
\* was no operand is followed by the selected result.
C11_Witness ==
    /\ Len(historyLog) >= 1
    /\ Last(historyLog).label = "CSG Operation"
    /\ Len(objects) = 2
    /\ Live[2].format = Str("json_data")
    /\ selectedIds = <<Live[2].id>>
    /\ Live[1].type # "model"

\* C12: updateTransform with text that does not parse as a number, for any
\* kind and any axis, sets the addressed component of the addressed object to 0
\* and appends a history entry.
C12_UnparsableTransformIsZero ==
    [][\A kind \in TransformKinds, axis \in Axes, value \in RawValues :
          (Panel /\ ParseFloat(value) = NaN
                 /\ UpdateTransform(SelectedObject.id, kind, axis, value)) =>
             /\ Find(Deref(heap', objects'), SelectedObject.id)[kind]
                   [CASE axis = "x" -> 1 [] axis = "y" -> 2 [] axis = "z" -> 3] = 0
             /\ Len(historyLog') = Len(historyLog) + 1
             /\ Last(historyLog').label
                   = "Set " \o ToUpperCase(axis) \o " " \o kind \o " of " \o SelectedObject.id]_vars

\* The y scale of object '1', 1 at first, is 0 after an edit of it: text that
\* does not parse was entered.
C12_Witness ==
    /\ Len(historyLog) >= 1
    /\ Last(historyLog).label = "Set Y scale of 1"
    /\ Find(Live, "1") # Undefined
    /\ Find(Live, "1").scale[2] = 0

\* C13: updateExtrudeSetting on a numeric setting with text that does not
\* parse stores 0, so the numeric extrusion settings of every object are
\* numbers after every step; bevelEnabled is stored as given.
C13_UnparsableSettingIsZero ==
    [][/\ \A setting \in NumericSettings, value \in RawValues :
             (ExtrudePanel /\ ParseFloat(value) = NaN
                  /\ UpdateExtrudeSetting(SelectedObject.id, setting, value)) =>
                Find(Deref(heap', objects'), SelectedObject.id).extrudeSettings[setting] = Num(0)
       /\ \A flag \in BOOLEAN :
             (ExtrudePanel /\ UpdateExtrudeSetting(SelectedObject.id, "bevelEnabled", flag)) =>
                Find(Deref(heap', objects'), SelectedObject.id).extrudeSettings.bevelEnabled = flag
       /\ \A i \in DOMAIN objects' :
             heap'[objects'[i]].extrudeSettings # Undefined =>
                \A setting \in NumericSettings :
                   heap'[objects'[i]].extrudeSettings[setting].t = "number"]_vars

\* C14: deleteObject(id) removes the object with that id and no other from
\* the snapshot, and removes id from the selection, the other selected ids
\* staying selected in their order; a selection of id alone becomes empty.
C14_DeleteRemovesAndPrunes ==
    [][\A id \in Ids(Live) :
          DeleteObject(id) =>
             /\ Deref(heap', objects') = SelectSeq(Live, LAMBDA o : o.id # id)
             /\ Len(objects') = Len(objects) - 1
             /\ selectedIds' = SelectSeq(selectedIds, LAMBDA i : i # id)
             /\ selectedIds = <<id>> => selectedIds' = <<>>]_vars

\* Object '2' was deleted and two other objects are still selected.
C14_Witness ==
    /\ Len(historyLog) >= 1
    /\ Last(historyLog).label = "Delete Object 2"
    /\ Len(selectedIds) = 2
    /\ Len(objects) = 2

\* C15: a pointer-down that misses every renderable while shift is held
\* leaves the selection unchanged; a miss without shift empties it.
C15_ShiftMissKeepsSelection ==
    [][/\ (PointerFree /\ OnDown("", TRUE, <<0, 0, 0>>)) => selectedIds' = selectedIds
       /\ (PointerFree /\ OnDown("", FALSE, <<0, 0, 0>>)) => selectedIds' = <<>>]_vars

\* C16: onSelect(id, multi) with an id and multi false makes the selection
\* <<id>>; with multi true it removes id if selected and appends it if not, the
\* others keeping their order; with null it empties the selection when multi is
\* false and keeps it when multi is true. No id is selected twice, and toggling
\* an id twice gives back the same members.
C16_OnSelectContract ==
    [][/\ \A id \in Ids(Live), multi \in BOOLEAN :
             SelectCall(id, multi) =>
                selectedIds' = IF ~multi THEN <<id>>
                               ELSE IF \E i \in DOMAIN selectedIds : selectedIds[i] = id
                               THEN SelectSeq(selectedIds, LAMBDA x : x # id)
                               ELSE selectedIds \o <<id>>
       /\ SelectCall("", FALSE) => selectedIds' = <<>>
       /\ SelectCall("", TRUE) => selectedIds' = selectedIds
       /\ \A i, j \in DOMAIN selectedIds' : i # j => selectedIds'[i] # selectedIds'[j]
       /\ \A id \in Ids(Live) :
             Range(SelectUpdate(SelectUpdate(selectedIds, id, TRUE), id, TRUE))
                = Range(selectedIds)]_vars

\* Three objects are selected, in an order that is not the order of the list.
C16_Witness == Len(selectedIds) = 3 /\ selectedIds[1] = "2" /\ selectedIds[3] = "1"

\* The state the mesh synchronisation effect leaves for the mirror clones: every
\* scene node is a cached renderable and the other way round, no two cache
\* entries share a node, an object whose mirror is enabled has its clone under
\* '<id>_mirror' with the position and rotation of the object's renderable and the
\* object's scale negated on the mirror axis only, and any other object has none.
MirrorOk ==
    /\ scene = {meshes[k].inst : k \in DOMAIN meshes}
    /\ \A k1 \in DOMAIN meshes, k2 \in DOMAIN meshes : meshes[k1].inst = meshes[k2].inst => k1 = k2
    /\ \A i \in DOMAIN Live :
          IF Live[i].mirror.enabled
          THEN /\ MirrorId(Live[i].id) \in DOMAIN meshes
               /\ meshes[MirrorId(Live[i].id)].isMirror
               /\ meshes[MirrorId(Live[i].id)].position = meshes[Live[i].id].position
               /\ meshes[MirrorId(Live[i].id)].rotation = meshes[Live[i].id].rotation
               /\ \A c \in 1..3 :
                     meshes[MirrorId(Live[i].id)].scale[c]
                         = IF c = AxisIndex(Live[i].mirror.axis)
                           THEN -(Live[i].scale[c]) ELSE Live[i].scale[c]
          ELSE MirrorId(Live[i].id) \notin DOMAIN meshes
    /\ \A k \in DOMAIN meshes :
          meshes[k].isMirror => \E i \in DOMAIN Live : k = MirrorId(Live[i].id)

\* C17: after every pass of the mesh synchronisation effect (every step but a
\* pointer move, which runs no pass) an object with mirror enabled on an axis has
\* exactly one clone, keyed '<id>_mirror', placed and rotated as the object's
\* renderable and scaled as the object with the mirror axis negated; an object
\* with mirror disabled has none, whatever it had before the pass.
C17_MirrorCloneAfterReconcile ==
    [][(\A point \in PlanePoints : ~OnMove(point, <<0, 0>>)) => MirrorOk']_vars

\* Object '2' is mirrored on y: the axis was switched from the default x while
\* the mirror was enabled, and the one clone carries the negated y scale.
C17_Witness ==
    /\ \E i \in DOMAIN Live :
          Live[i].id = "2" /\ Live[i].mirror.enabled /\ Live[i].mirror.axis = "y"
    /\ MirrorId("2") \in DOMAIN meshes
    /\ meshes[MirrorId("2")].scale = <<10, -10, 10>>
    /\ Cardinality(scene) = 3

\* C18: whatever was deleted, restored, loaded or combined while a model was
\* loading, the completion callback of the loader changes neither the snapshot,
\* the history log nor the selection, and it adds no cache entry and no scene
\* node: a Group whose object was removed in the meantime stays out of both.
C18_LoadCompletionIsInert ==
    [][\A inst \in pendingLoads :
          LoadComplete(inst)
              => /\ Deref(heap', objects') = Deref(heap, objects)
                 /\ objects' = objects
                 /\ historyLog' = historyLog
                 /\ selectedIds' = selectedIds
                 /\ DOMAIN meshes' = DOMAIN meshes
                 /\ scene' = scene]_vars

\* One model was imported and one more operation has removed it (three ids were
\* drawn: the model's and two log entries'). It was removed while its first
\* loader (3) was running and is back, restored, with a second Group (4); the
\* first loader has completed since, the second is still running.
C18_Witness ==
    /\ idCount = 3
    /\ GenerateId(1) \in DOMAIN meshes
    /\ meshes[GenerateId(1)].inst = 4
    /\ meshes[GenerateId(1)].children = 0
    /\ pendingLoads = {4}
    /\ scene = {1, 2, 4}

\* C19: delivering a message to a tab posts nothing (the tab's queue loses the
\* delivered message and no other queue changes), and the number of
\* SCENE_UPDATE messages in flight grows only in a step in which a user edits
\* the scene of a tab.
C19_RemoteUpdateIsNotEchoed ==
    [][/\ \A t \in Tabs :
             OnMessage(t) => /\ inbox'[t] = Tail(inbox[t])
                             /\ \A u \in Tabs \ {t} : inbox'[u] = inbox[u]
       /\ (~\E t \in Tabs : CollabAddObject(t, "cube") \/ CollabDeleteObject(t, "1"))
             => Cardinality(SceneUpdatesInFlight') <= Cardinality(SceneUpdatesInFlight)]_vars

\* One edit was made in all; both tabs show its result, so one of them has
\* received and applied it, and still has its flag set; no update is in flight.
C19_Witness ==
    /\ saveCount = 1
    /\ \A t \in Tabs : tabObjects[t] = <<"1", "2", GenerateId(1)>>
    /\ \E t \in Tabs : isRemoteUpdate[t]
    /\ SceneUpdatesInFlight = {}

\* C20: when the read of a .json file whose text is not JSON completes, the
\* snapshot, the history log and the selection are what they were: no object is
\* added and no history entry is appended.
C20_BrokenJsonChangesNothing ==
    [][\A p \in pendingReads :
          (p.file.text = "{oops" /\ ReaderOnload(p))
              => /\ Deref(heap', objects') = Deref(heap, objects)
                 /\ objects' = objects
                 /\ historyLog' = historyLog
                 /\ selectedIds' = selectedIds]_vars

\* The read of the broken file has just completed, in a session that has a
\* history entry and a selection to lose.
C20_Witness ==
    /\ consoleError = "Invalid JSON"
    /\ historyLog # <<>>
    /\ selectedIds # <<>>

\* C21: when the read of a .json file completes, a document that is an array
\* becomes the live snapshot as it is, with one history entry appended; any
\* other document appends one imported model of format 'json' to the snapshot
\* that is live at that moment and makes it the sole selection.
C21_LoadSceneDocument ==
    [][\A p \in pendingReads :
          ReaderOnload(p) =>
              CASE JsonParse(p.file.text) = "array" ->
                       /\ Live' = SceneDocument(p.file.text)
                       /\ Len(historyLog') = Len(historyLog) + 1
                [] JsonParse(p.file.text) = "object" ->
                       /\ Len(Live') = Len(Live) + 1
                       /\ SubSeq(Live', 1, Len(Live)) = Live
                       /\ Last(Live').type = "model"
                       /\ Last(Live').format = Str("json")
                       /\ selectedIds' = <<Last(Live').id>>
                       /\ Len(historyLog') = Len(historyLog) + 1
                [] OTHER -> TRUE]_vars

\* C22: addObject(type) leaves every object of the snapshot as it was and puts
\* one new object after them, with rotation (0,0,0), scale (1,1,1), wireframe
\* off and extrusion settings exactly when the type starts with 'ex_'; the new
\* object's id becomes the whole selection and the active tool becomes 'move'.
C22_AddObjectAppendsAndSelects ==
    [][\A type \in AddTypes, x \in RandomCoords, y \in RandomCoords, color \in Palette :
          AddObject(type, x, y, color) =>
              /\ Len(Live') = Len(Live) + 1
              /\ SubSeq(Live', 1, Len(Live)) = Live
              /\ Last(Live').type = type
              /\ Last(Live').id \notin Ids(Live)
              /\ Last(Live').rotation = <<0, 0, 0>>
              /\ Last(Live').scale = <<10, 10, 10>>
              /\ Last(Live').wireframe = FALSE
              /\ (Last(Live').extrudeSettings # Undefined) <=> (type = "ex_rect")
              /\ selectedIds' = <<Last(Live').id>>
              /\ activeTool' = "move"]_vars

\* An extruded rectangle has just been added to the initial scene: it is the
\* last object, it alone is selected and the tool is 'move'.
C22_Witness ==
    /\ Len(Live) = 3
    /\ Last(Live).type = "ex_rect"
    /\ Last(Live).extrudeSettings = DefaultExtrudeSettings
    /\ selectedIds = <<Last(Live).id>>
    /\ activeTool = "move"
    /\ Len(historyLog) = 1

\* C23: a Delete or Backspace key press outside a text-entry field, with a
\* selection, removes the selected objects and no other, empties the selection
\* and appends one 'Delete Selected' entry; inside a text-entry field, or with
\* nothing selected, it leaves the snapshot, the log and the selection alone.
C23_KeyDeletesSelection ==
    [][\A isInputFocused \in BOOLEAN :
          HandleKeyDown(isInputFocused) =>
              IF ~isInputFocused /\ selectedIds # <<>>
              THEN /\ Live' = SelectSeq(Live, LAMBDA o : o.id \notin Range(selectedIds))
                   /\ selectedIds' = <<>>
                   /\ Len(historyLog') = Len(historyLog) + 1
                   /\ SubSeq(historyLog', 1, Len(historyLog)) = historyLog
                   /\ Last(historyLog').label = "Delete Selected"
              ELSE /\ Live' = Live
                   /\ objects' = objects
                   /\ historyLog' = historyLog
                   /\ selectedIds' = selectedIds]_vars

\* Both objects of the initial scene were selected and the key has removed them.
C23_Witness ==
    /\ historyLog # <<>>
    /\ Last(historyLog).label = "Delete Selected"
    /\ Last(historyLog).snapshot = <<>>
    /\ objects = <<>>
    /\ selectedIds = <<>>

\* C24: when the cleanup interval has run in a tab, a remote user whose last
\* heartbeat there came 5 seconds ago or earlier is not in the active users, the
\* active-user count counts exactly the active users, and that user's cursor
\* is not displayed.
C24_SilentUserIsDropped ==
    [][\A t \in Tabs :
          Cleanup(t) =>
              \A u \in Tabs \ {t} :
                  (u \in DOMAIN activeUsersMap[t]
                      /\ now - activeUsersMap[t][u].lastUpdate >= TimeoutSeconds)
                  => /\ u \notin DOMAIN activeUsersMap'[t]
                     /\ activeUserCount'[t] = Cardinality(DOMAIN activeUsersMap'[t])
                     /\ u \notin overlay'[t]]_vars

\* The ids of every object that was ever created or loaded: heap cells are
\* never freed.
EverUsedIds == {heap[c].id : c \in DOMAIN heap}

\* C25: no two objects of the live snapshot share an id, and an object that
\* addObject or an import creates gets an id that no object ever had.
C25_IdsUniqueNeverReused ==
    /\ [](\A i \in DOMAIN Live, j \in DOMAIN Live : Live[i].id = Live[j].id => i = j)
    /\ [][((\E type \in AddTypes, x \in RandomCoords, y \in RandomCoords, color \in Palette :
                 AddObject(type, x, y, color))
             \/ (\E file \in ModelFiles : HandleFileUpload(file)))
                => Last(Live').id \notin EverUsedIds]_vars

\* C26: whatever pointer moves and wheel events have happened, the camera
\* pitch is within [0.1, pi - 0.1], so strictly between 0 and pi, and the orbit
\* radius is within [2, 50].
C26_CameraWithinLimits ==
    /\ PhiMin <= camera.phi /\ camera.phi <= PhiMax
    /\ 0 < camera.phi /\ camera.phi < Pi
    /\ RadiusMin <= camera.radius /\ camera.radius <= RadiusMax

\* The camera was dragged up to the upper pitch limit and zoomed in to the
\* smallest radius.
C26_Witness == camera.phi = PhiMax /\ camera.radius = RadiusMin /\ camDragging

\* C27: a renderable whose object has a type that is neither a primitive nor
\* an extruded profile has the unit cube as its geometry, also when the type
\* starts with 'ex_', and the collaborative variant's dispatch gives the unit
\* cube for such a type too; renderables of two different known types have
\* different solids.
C27_UnknownShapeIsUnitCube ==
    /\ \A k \in DOMAIN meshes :
          (~meshes[k].isGroup /\ meshes[k].geoType \notin ShapeTypes)
              => /\ meshes[k].geometry.solid = "BoxGeometry(1, 1, 1)"
                 /\ CollabGeometry(meshes[k].geoType) = "BoxGeometry(1, 1, 1)"
    /\ \A k1 \in DOMAIN meshes, k2 \in DOMAIN meshes :
          (/\ ~meshes[k1].isGroup /\ ~meshes[k2].isGroup
           /\ meshes[k1].geoType \in ShapeTypes /\ meshes[k2].geoType \in ShapeTypes
           /\ meshes[k1].geoType # meshes[k2].geoType)
              => <<meshes[k1].geometry.solid, meshes[k1].geometry.shape>>
                     # <<meshes[k2].geometry.solid, meshes[k2].geometry.shape>>

\* C28: when the read of a document written by Export completes, the live
\* snapshot deep-equals the snapshot the document was written from: the same
\* objects in the same order with the same field values.
C28_ExportImportRoundTrip ==
    [][\A p \in pendingReads : \A n \in DOMAIN downloads :
          (ReaderOnload(p) /\ p.file.text = ExportText(n))
              => Live' = downloads[n].snapshot]_vars

\* C29: throughout a drag, a pointer-move moves no renderable but the one of
\* the object hit by the pointer-down that started the drag, to the point on
\* the drag plane plus the offset captured at that pointer-down, and the
\* pointer-up commits no position but that object's; also when the
\* pointer-down was a shift-click that toggled the hit object out of a
\* multi-selection.
C29_DragActsOnHitObject ==
    [][(isDraggingObject /\ dragTarget # "") =>
          /\ \A point \in PlanePoints :
                OnMove(point, <<0, 0>>) =>
                   \A k \in DOMAIN meshes :
                      meshes'[k] # meshes[k] =>
                         k = dragTarget /\ meshes'[k].position = Add(point, dragOffset)
          /\ (OnUp /\ historyLog' # historyLog) =>
                /\ Last(historyLog').label = "Move Object " \o dragTarget
                /\ Find(Deref(heap', objects'), dragTarget).position
                      = meshes[dragTarget].position]_vars

\* C30: the id a pointer-down passes to onSelect is the id of an object of
\* the live snapshot, also when the first hit is a mirror clone, and the
\* 'Move Object' entry a pointer-up appends names an object of the live
\* snapshot.
C30_ViewportPassesObjectIds ==
    [][/\ \A hit \in Hittable, shiftKey \in BOOLEAN :
             OnDown(hit, shiftKey, <<0, 0, 0>>) => meshes[hit].id \in Ids(Live)
       /\ (OnUp /\ historyLog' # historyLog) =>
             \E id \in Ids(Live) : Last(historyLog').label = "Move Object " \o id]_vars

\* C31: a pointer-down from idle that hits a renderable with the move tool
\* starts dragging the object and does not start orbiting; with the select
\* tool it updates the selection and starts orbiting without a drag; a miss
\* starts orbiting; every pointer-up leaves neither a drag nor an orbit.
C31_PointerDownAndUp ==
    [][/\ \A hit \in Hittable, shiftKey \in BOOLEAN :
             (PointerFree /\ OnDown(hit, shiftKey, <<0, 0, 0>>)) =>
                IF activeTool = "move"
                THEN isDraggingObject' /\ ~camDragging'
                ELSE /\ camDragging' /\ ~isDraggingObject'
                     /\ selectedIds' = IF shiftKey
                                        THEN (IF Includes(selectedIds, meshes[hit].id)
                                              THEN Without(selectedIds, meshes[hit].id)
                                              ELSE Append(selectedIds, meshes[hit].id))
                                        ELSE <<meshes[hit].id>>
       /\ \A shiftKey \in BOOLEAN :
             (PointerFree /\ OnDown("", shiftKey, <<0, 0, 0>>)) =>
                camDragging' /\ ~isDraggingObject'
       /\ OnUp => ~isDraggingObject' /\ ~camDragging']_vars

\* An object drag is under way after a hit with the move tool.
C31_Witness == isDraggingObject /\ ~camDragging /\ dragTarget # "" /\ activeTool = "move"

\* C32: the keys of the renderable cache are exactly the ids of the objects of
\* the live snapshot and '<id>_mirror' for each object whose mirror is enabled:
\* every object has a renderable, and none remains for an id that a delete, a
\* restore, a scene load or a boolean operation removed.
C32_CacheKeysMatchSnapshot ==
    DOMAIN meshes
        = {Live[i].id : i \in DOMAIN Live}
             \cup {MirrorId(Live[i].id) : i \in {j \in DOMAIN Live : Live[j].mirror.enabled}}

\* The mirror of object '2' was enabled and the object was deleted afterwards.
C32_Witness ==
    /\ Len(historyLog) = 2
    /\ historyLog[1].label = "Update Mirror enabled"
    /\ historyLog[2].label = "Delete Object 2"
    /\ "2" \notin DOMAIN meshes

\* C33: every invocation of the boolean operation either appends one
\* 'CSG Operation' entry to the history log or raises a notice; none returns
\* without an effect, also when two ids are selected and one of them is the id
\* of no object of the snapshot.
C33_CsgAppliesOrNotifies ==
    [][\A center \in CsgCenters :
          PerformCSG("SUBTRACTION", center) =>
             \/ /\ Len(historyLog') = Len(historyLog) + 1
                /\ Last(historyLog').label = "CSG Operation"
             \/ alert' # ""]_vars

\* C34: an object added in a tab that has joined is appended to the tab's
\* snapshot, its label is appended to the tab's log and the update is posted to
\* the other tabs, also while the flag set by a remote update that was just
\* received has not been reset.
C34_LocalEditAppliedAndBroadcast ==
    [][\A t \in Tabs :
          (joined[t] /\ CollabAddObject(t, "cube")) =>
             /\ Len(tabObjects'[t]) = Len(tabObjects[t]) + 1
             /\ tabLog'[t] # <<>> /\ Last(tabLog'[t]) = "Add cube"
             /\ \A u \in Tabs \ {t} :
                   joined[u] =>
                      /\ Len(inbox'[u]) = Len(inbox[u]) + 1
                      /\ Last(inbox'[u]).type = "SCENE_UPDATE"
                      /\ Last(inbox'[u]).objects = tabObjects'[t]]_vars

\* C35: when the read of a .json file that holds a single mesh completes,
\* every object of the snapshot that is live at that moment, whether added or
\* changed since the file was chosen, is still in the snapshot and unchanged.
C35_ImportKeepsLaterEdits ==
    [][\A p \in pendingReads :
          (ReaderOnload(p) /\ p.file.text = "{mesh}") =>
              \A i \in DOMAIN Live : \E j \in DOMAIN Live' : Live'[j] = Live[i]]_vars

\* C37: updateTransform(id, kind, axis, value) changes nothing but the
\* component of the addressed axis of the addressed vector of the addressed
\* object: its other components, its other vectors and fields, the other
\* objects and the order of the objects are as before.
C37_TransformChangesOneComponent ==
    [][\A kind \in TransformKinds, axis \in Axes, value \in RawValues :
          (Panel /\ UpdateTransform(SelectedObject.id, kind, axis, value)) =>
             /\ Len(Live') = Len(Live)
             /\ \A i \in DOMAIN Live :
                   IF Live[i].id = SelectedObject.id
                   THEN \A c \in {CASE axis = "x" -> 1 [] axis = "y" -> 2 [] axis = "z" -> 3} :
                           Live'[i] = [Live[i] EXCEPT ![kind][c] = Live'[i][kind][c]]
                   ELSE Live'[i] = Live[i]]_vars

\* The y rotation of object '1' was set to 2: its x and z rotation, its
\* position and its scale are the initial ones.
C37_Witness ==
    /\ Len(historyLog) >= 1
    /\ Last(historyLog).label = "Set Y rotation of 1"
    /\ Find(Live, "1") # Undefined
    /\ Find(Live, "1").rotation = <<0, 20, 0>>
    /\ Find(Live, "1").position = <<-20, 0, 0>>
    /\ Find(Live, "1").scale = <<10, 10, 10>>

\* C36: the cached renderable of every generated shape of the snapshot has
\* the geometry that the object's current type and extrusion settings give,
\* as if it had been built from the object alone; also after a restore or a
\* scene load that brings an object whose id is cached with another type.
C36_CacheMatchesObjects ==
    \A i \in DOMAIN Live :
        (Live[i].type # "model" /\ Live[i].id \in DOMAIN meshes) =>
            /\ meshes[Live[i].id].geoType = Live[i].type
            /\ meshes[Live[i].id].geometry = GetGeometryForObject(Live[i])

\* C38: whatever pointer-downs, pointer-moves, pointer-ups and wheel events
\* have happened, two pointer-downs with no pointer-up between them included,
\* the viewport is not dragging an object and orbiting the camera at once.
C38_NeverDragAndOrbit == ~(isDraggingObject /\ camDragging)

\* C39: after a tab has processed a SCENE_UPDATE message, its snapshot is the
\* objects of the message and its log is the log of the message, whatever the
\* tab had edited before the message arrived; processing the message appends
\* no entry of the tab's own.
C39_LastMessageWins ==
    [][\A t \in Tabs :
          (OnMessage(t) /\ Head(inbox[t]).type = "SCENE_UPDATE") =>
             /\ tabObjects'[t] = Head(inbox[t]).objects
             /\ tabLog'[t] = Head(inbox[t]).log]_vars

\* Tab B added an object of its own before the update of tab A arrived; after
\* processing the update B shows the scene of A, without its own object.
C39_Witness ==
    /\ saveCount = 2
    /\ tabSelectedId["B"] = GenerateId(2)
    /\ isRemoteUpdate["B"]
    /\ tabObjects["B"] = <<"1", "2", GenerateId(1)>>
    /\ tabLog["B"] = <<"Add cube">>

\* C40: the active-user count of a tab is never below 1, and a run of the
\* cleanup interval in a tab keeps, and counts next to the tab's own user, every
\* remote user whose last heartbeat arrived there no longer ago than the
\* heartbeat interval, which is half of timeoutSeconds.
C40_HeartbeatingUserIsCounted ==
    /\ [](\A t \in Tabs : activeUserCount[t] >= 1)
    /\ [][\A t \in Tabs :
             Cleanup(t) =>
                 \A u \in Tabs \ {t} :
                     (u \in DOMAIN activeUsersMap[t]
                         /\ 2 * (now - activeUsersMap[t][u].lastUpdate) <= TimeoutSeconds)
                     => /\ u \in DOMAIN activeUsersMap'[t]
                        /\ activeUsersMap'[t][u] = activeUsersMap[t][u]
                        /\ activeUserCount'[t] >= 2]_vars

\* The cleanup of tab A has run in this second and has counted tab B's user,
\* whose last heartbeat arrived two seconds ago.
C40_Witness ==
    /\ "B" \in DOMAIN activeUsersMap["A"]
    /\ now - activeUsersMap["A"]["B"].lastUpdate = 2
    /\ "A" \in DOMAIN activeUsersMap["A"]
    /\ activeUsersMap["A"]["A"].lastUpdate = now
    /\ activeUserCount["A"] = 2

====
